---- MODULE Spec2Model ----
(***************************************************************************)
(* svg2icon: the ICO and ICNS container encoders.                          *)
(*                                                                         *)
(* internal/ico.CreateIco and internal/icns.CreateIcns rasterize one SVG   *)
(* at every size of a fixed table (internal/png.SvgToPng), compute the     *)
(* per-entry metadata, serialize header, entries and payloads into one     *)
(* in-memory buffer and hand it to os.WriteFile.                           *)
(*                                                                         *)
(* Bytes are integers 0..255, byte strings are sequences of bytes.  The    *)
(* rasterizer and the file system are the environment: every request to    *)
(* SvgToPng either fails or returns a payload, and os.WriteFile may fail   *)
(* when it opens the file or part-way through writing it.                  *)
(***************************************************************************)
EXTENDS Integers, Sequences, FiniteSets, TLC

\* ------------------------------------------------------------------ bounds

\* The payloads of one call hold at most this many bytes in total beyond one
\* byte each (a real PNG is longer; the encoders only use its length and copy
\* its bytes).
MaxExtraBytes == 4

\* Longest prefix a failing write leaves behind in the output file.
MaxPartialWrite == 1

\* Number of successive encodes of the same source in SpecDet.
NumRuns == 2

\* Longest size list of SpecSizes.
MaxListLen == 2

\* Length of the long payloads of SpecWide: long enough for offsets, lengths
\* and total sizes that need a second byte.
WidePayloadLen == 200

\* --------------------------------------------------------- program tables

\* ico.go:15
IconSizes == <<16, 24, 32, 48, 64, 128, 256>>

\* icns.go:15-30
StandardIconTypes ==
  << [OSType |-> "icp4", Size |-> 16],
     [OSType |-> "icp5", Size |-> 32],
     [OSType |-> "icp6", Size |-> 64],
     [OSType |-> "ic07", Size |-> 128],
     [OSType |-> "ic08", Size |-> 256],
     [OSType |-> "ic09", Size |-> 512],
     [OSType |-> "ic10", Size |-> 1024],
     [OSType |-> "ic11", Size |-> 32],
     [OSType |-> "ic12", Size |-> 64],
     [OSType |-> "ic13", Size |-> 256],
     [OSType |-> "ic14", Size |-> 512] >>

\* The ASCII bytes of the type codes of StandardIconTypes ("i" = 105,
\* "c" = 99, "p" = 112, "0".."9" = 48..57): what copy(osTypeBytes[:], s)
\* reads from the Go string.
AsciiBytes(s) ==
  CASE s = "icp4" -> <<105, 99, 112, 52>>
    [] s = "icp5" -> <<105, 99, 112, 53>>
    [] s = "icp6" -> <<105, 99, 112, 54>>
    [] s = "ic07" -> <<105, 99, 48, 55>>
    [] s = "ic08" -> <<105, 99, 48, 56>>
    [] s = "ic09" -> <<105, 99, 48, 57>>
    [] s = "ic10" -> <<105, 99, 49, 48>>
    [] s = "ic11" -> <<105, 99, 49, 49>>
    [] s = "ic12" -> <<105, 99, 49, 50>>
    [] s = "ic13" -> <<105, 99, 49, 51>>
    [] s = "ic14" -> <<105, 99, 49, 52>>
    [] s = "icns" -> <<105, 99, 110, 115>>

\* ------------------------------------------------------ integer encodings

\* Mutant of U32: the words are 8 bits wide, so that totals within reach
\* wrap.
U32Narrow(x) == x % 256

\* uint32(x) of a non-negative int: x mod 2^32.  TLC's integers are 32-bit
\* signed and overflow-checked (it stops with an error beyond 2^31-1), so
\* every x it can hold is below 2^32 and is its own residue.
U32(x) == x

\* uint8(x): the low byte of x.
U8(x) == x % 256

\* binary.Write(buffer, binary.LittleEndian, uint16(x))
LE16(x) == << x % 256, (x \div 256) % 256 >>

\* Mutant of LE32: the most significant byte is written first, as CreateIcns
\* does.
LE32MostFirst(x) == << (x \div 16777216) % 256, (x \div 65536) % 256,
                       (x \div 256) % 256, x % 256 >>

\* binary.Write(buffer, binary.LittleEndian, uint32(x))
LE32(x) == << x % 256, (x \div 256) % 256, (x \div 65536) % 256,
              (x \div 16777216) % 256 >>

\* binary.Write(buffer, binary.BigEndian, uint32(x))
BE32(x) == << (x \div 16777216) % 256, (x \div 65536) % 256,
              (x \div 256) % 256, x % 256 >>

\* ------------------------------------------------------------ environment

\* Go error values: the cause, and the pixel size the error names (0: the
\* error names no size).  NoError is nil.
NoError == [cause |-> "nil", size |-> 0]

\* The errors SvgToPng returns: those of os.Open(svgPath) and of
\* oksvg.ReadIconStream(svgFile), unwrapped.  Neither callee is given pxSize,
\* so neither error names it.  (png.Encode into a bytes.Buffer of a
\* pxSize x pxSize canvas, pxSize > 0, does not fail.)
RasterErrors == { [cause |-> "open", size |-> 0],
                  [cause |-> "parse", size |-> 0] }

\* The bytes of a PNG of n bytes rendered at pxSize: opaque to the encoders;
\* the model makes them differ from size to size and from byte to byte.
Payload(pxSize, n) == [j \in 1..n |-> (pxSize \div 8 + j - 1) % 256]

\* The sum of the lengths of the first n byte strings of ss.
RECURSIVE SumLen(_, _)
SumLen(ss, n) == IF n = 0 THEN 0 ELSE SumLen(ss, n - 1) + Len(ss[n])

\* The bytes the payloads ss hold beyond one byte each.
ExtraBytes(ss) == SumLen(ss, Len(ss)) - Len(ss)

\* What one request SvgToPng(svgPath, pxSize) can give when the payloads of
\* the call hold extra bytes beyond one each so far: an error, or a payload
\* of at least one byte (part_005:47-51 returns what png.Encode wrote, which
\* starts with the PNG signature and is never empty).
RasterResults(pxSize, extra) ==
  { [err |-> e, data |-> <<>>] : e \in RasterErrors } \cup
  { [err |-> NoError, data |-> Payload(pxSize, n)] : n \in 1..(1 + MaxExtraBytes - extra) }

\* A file at a path: whether it exists, and its content.
NoFile == [exists |-> FALSE, data |-> <<>>]
OldFile == [exists |-> TRUE, data |-> <<79, 76, 68>>]

\* The errors of os.WriteFile.
OpenError  == [cause |-> "create", size |-> 0]
WriteError == [cause |-> "write", size |-> 0]

\* The concatenation of the byte strings of a sequence, in order.
RECURSIVE Concat(_)
Concat(ss) == IF ss = << >> THEN << >> ELSE Head(ss) \o Concat(Tail(ss))

Min(a, b) == IF a < b THEN a ELSE b

\* ------------------------------------------------------------------ state

VARIABLES
  target,         \* what this run executes: the encoders "ico", "icns" or
                  \* "both", or a script
  iconSizes,      \* the package variable ico.IconSizes (ico.go:15)
  standardIconTypes, \* the package variable icns.StandardIconTypes
  oracle,         \* SpecDet, SpecConc: what the rasterizer gave for each size so far
  runs,           \* number of encode calls started
  built,          \* the buffers built by the calls so far, in call order
  \* CreateIco
  icoPc,          \* "idle", "raster", "entries", "serialize", "open", "write", "returned"
  icoI,           \* index of the raster loop (ico.go:45)
  imageData,      \* ico.go:41
  icoEntries,     \* ico.go:42
  currentOffset,  \* ico.go:56
  icoBuffer,      \* ico.go:82
  icoRet,         \* the error CreateIco returned
  icoFile,        \* the file at CreateIco's outputPath
  icoFileBefore,  \* history: that file when the current call started
  icoWrites,      \* history: operations of the current call that changed that file
  icoFailure,     \* history: the failed rasterizer request of the call: [index, size, err]
  icoRequests,    \* history: the rasterizer requests of the call: [size, err, data]
  icoWriteErr,    \* history: the error os.WriteFile reported to the call
  \* CreateIcns
  icnsPc,         \* "idle", "raster", "total", "serialize", "open", "write", "returned"
  icnsI,          \* index of the raster loop (icns.go:61)
  icnsEntries,    \* icns.go:58
  totalSize,      \* icns.go:80
  icnsBuffer,     \* icns.go:86
  icnsRet,        \* the error CreateIcns returned
  icnsFile,       \* the file at CreateIcns's outputPath
  icnsFileBefore, \* history, as for CreateIco
  icnsWrites,
  icnsFailure,
  icnsRequests,
  icnsWriteErr

icoVars == << icoPc, icoI, imageData, icoEntries, currentOffset, icoBuffer, icoRet,
              icoFile, icoFileBefore, icoWrites, icoFailure, icoRequests, icoWriteErr >>

icnsVars == << icnsPc, icnsI, icnsEntries, totalSize, icnsBuffer, icnsRet,
               icnsFile, icnsFileBefore, icnsWrites, icnsFailure, icnsRequests,
               icnsWriteErr >>

encoderVars == << target, iconSizes, standardIconTypes, oracle, runs, built,
                 icoVars, icnsVars >>

\* scripts/uninstall.sh
VARIABLES
  shFiles,        \* environment: the paths at which a regular file exists
  shDirs,         \* environment: the directories that exist
  shProfiles,     \* environment: the shell profiles and what each holds
  shPathDir,      \* environment: the directory PATH finds svg2icon in, if a
                  \* file is there ("": no directory of PATH can hold it)
  shTty,          \* environment: standard input is a terminal ([[ -t 0 ]])
  shArithExit,    \* environment: set -e applies to (( )) (bash 4.1 and later)
  shPc,           \* "idle", "check", "paths", "confirm", "remove", "count",
                  \* "report", "exited"
  found_paths,    \* main's array found_paths (line 176)
  shI,            \* index of the removal loop (line 185)
  removed_count,  \* line 184
  shStatus,       \* the exit status of the script, -1 while it runs
  shOut,          \* history: the messages printed, in order
  shRm,           \* history: the arguments rm was run with, in order
  shAsked         \* history: the confirmation prompt was shown

shVars == << shFiles, shDirs, shProfiles, shPathDir, shTty, shArithExit, shPc,
             found_paths, shI, removed_count, shStatus, shOut, shRm, shAsked >>

\* The release script
VARIABLES
  relVersionFrom, \* environment: the version comes from the "argument" or
                  \* from the "prompt"
  relPc,          \* "idle", "prerequisites", "version", "confirm", "build",
                  \* "tag", "push", "release", "finish", "exited"
  relStatus,      \* the exit status of the script, -1 while it runs
  relConfirmed,   \* history: the user answered y or Y at line 332
  relBinaries,    \* the files of the build directory
  relVerified,    \* history: build_binaries found all expected binaries
  relTag,         \* the tag of the version exists locally, made by this run
  relPushed,      \* the tag is on the remote
  relReleased,    \* the GitHub release of the version is published
  relLog          \* history: the steps started, in order, and how each ended

relVars == << relVersionFrom, relPc, relStatus, relConfirmed, relBinaries,
              relVerified, relTag, relPushed, relReleased, relLog >>

\* scripts/uninstall.bat
VARIABLES
  batFiles,       \* environment: the paths at which a file exists
  batDirs,        \* environment: the directories that exist
  batUserPath,    \* environment: the user's PATH (HKCU\Environment)
  batWhere,       \* environment: the path `where` finds, << >> for none
  batPc,          \* "idle", "find", "confirm", "remove", "report", "exited"
  FOUND_PATHS,    \* line 16: the paths found, each ended by ";"
  batI,           \* index of the removal loop (line 69)
  REMOVED_COUNT,  \* line 9
  batStatus,      \* the exit status of the script, -1 while it runs
  batOut,         \* history: the messages printed, in order
  batDel          \* history: the arguments del was run with, in order

batVars == << batFiles, batDirs, batUserPath, batWhere, batPc, FOUND_PATHS,
              batI, REMOVED_COUNT, batStatus, batOut, batDel >>

scriptVars == << shVars, relVars, batVars >>

vars == << encoderVars, scriptVars >>

\* uninstall.sh is not run.
ShIdle ==
  /\ shFiles = {}
  /\ shDirs = {}
  /\ shProfiles = << >>
  /\ shPathDir = ""
  /\ shTty = FALSE
  /\ shArithExit = TRUE
  /\ shPc = "idle"
  /\ found_paths = << >>
  /\ shI = 1
  /\ removed_count = 0
  /\ shStatus = -1
  /\ shOut = << >>
  /\ shRm = << >>
  /\ shAsked = FALSE

\* The release script is not run.
RelIdle ==
  /\ relVersionFrom = "argument"
  /\ relPc = "idle"
  /\ relStatus = -1
  /\ relConfirmed = FALSE
  /\ relBinaries = {}
  /\ relVerified = FALSE
  /\ relTag = FALSE
  /\ relPushed = FALSE
  /\ relReleased = FALSE
  /\ relLog = << >>

\* uninstall.bat is not run.
BatIdle ==
  /\ batFiles = {}
  /\ batDirs = {}
  /\ batUserPath = << >>
  /\ batWhere = << >>
  /\ batPc = "idle"
  /\ FOUND_PATHS = << >>
  /\ batI = 1
  /\ REMOVED_COUNT = 0
  /\ batStatus = -1
  /\ batOut = << >>
  /\ batDel = << >>

\* No script is run.
ScriptsIdle == ShIdle /\ RelIdle /\ BatIdle

NoFailure == [index |-> 0, size |-> 0, err |-> NoError]

\* Before any call: no local holds anything, nothing was requested or written.
InitState ==
  /\ oracle = << >>
  /\ runs = 0
  /\ built = << >>
  /\ icoPc = "idle"
  /\ icoI = 1
  /\ imageData = << >>
  /\ icoEntries = << >>
  /\ currentOffset = 0
  /\ icoBuffer = << >>
  /\ icoRet = NoError
  /\ icoFileBefore = icoFile
  /\ icoWrites = 0
  /\ icoFailure = NoFailure
  /\ icoRequests = << >>
  /\ icoWriteErr = NoError
  /\ icnsPc = "idle"
  /\ icnsI = 1
  /\ icnsEntries = << >>
  /\ totalSize = 0
  /\ icnsBuffer = << >>
  /\ icnsRet = NoError
  /\ icnsFileBefore = icnsFile
  /\ icnsWrites = 0
  /\ icnsFailure = NoFailure
  /\ icnsRequests = << >>
  /\ icnsWriteErr = NoError

\* One invocation with an .ico or an .icns output path, where a file may
\* exist already; the size list is the one the package declares.
Init ==
  /\ target \in {"ico", "icns"}
  /\ iconSizes = IconSizes
  /\ standardIconTypes = StandardIconTypes
  /\ icoFile \in (IF target = "ico" THEN {NoFile, OldFile} ELSE {NoFile})
  /\ icnsFile \in (IF target = "icns" THEN {NoFile, OldFile} ELSE {NoFile})
  /\ InitState
  /\ ScriptsIdle

\* ------------------------------------------------------------- os.WriteFile

\* os.WriteFile(name, data, 0644) opens name with O_WRONLY|O_CREATE|O_TRUNC:
\* the file exists and is empty as soon as the open succeeds.
Truncated == [exists |-> TRUE, data |-> <<>>]

\* The file once f.Write(data) wrote the first n bytes of data.
Written(data, n) == [exists |-> TRUE, data |-> SubSeq(data, 1, n)]

\* The prefixes a failing f.Write(data) can leave: fewer bytes than data.
PartialWrites(data) == 0 .. Min(MaxPartialWrite, Len(data) - 1)

\* ---------------------------------------------------------------- CreateIco

\* Mutant of IcoStart: with an empty list the call returns at once and
\* builds nothing.
IcoStartNonEmpty == IF Len(iconSizes) = 0 THEN "returned" ELSE "raster"

\* The first position of CreateIco: the raster loop, or past it when there
\* is nothing to range over.
IcoStart == IF Len(iconSizes) = 0 THEN "entries" ELSE "raster"

\* Mutant of IcoEnter: imageData outlives the call (a package-level slice).
IcoEnterStale ==
  /\ icoPc' = IcoStart
  /\ icoI' = 1
  /\ icoEntries' = << >>
  /\ currentOffset' = 0
  /\ icoBuffer' = << >>
  /\ icoRet' = NoError
  /\ icoFileBefore' = icoFile
  /\ icoWrites' = 0
  /\ icoFailure' = NoFailure
  /\ icoRequests' = << >>
  /\ icoWriteErr' = NoError
  /\ runs' = runs + 1
  /\ UNCHANGED << target, iconSizes, standardIconTypes, oracle, built,
                  imageData, icoFile, icnsVars, scriptVars >>

\* Mutant of IcoEnter: the call removes the file at outputPath before it
\* renders.
IcoEnterRemove ==
  /\ icoPc' = IcoStart
  /\ icoI' = 1
  /\ imageData' = << >>
  /\ icoEntries' = << >>
  /\ currentOffset' = 0
  /\ icoBuffer' = << >>
  /\ icoRet' = NoError
  /\ icoFileBefore' = icoFile
  /\ icoFile' = NoFile
  /\ icoWrites' = 0
  /\ icoFailure' = NoFailure
  /\ icoRequests' = << >>
  /\ icoWriteErr' = NoError
  /\ runs' = runs + 1
  /\ UNCHANGED << target, iconSizes, standardIconTypes, oracle, built,
                  icnsVars, scriptVars >>

\* ico.go:41-42: the locals of a call, fresh on every call.
IcoEnter ==
  /\ icoPc' = IcoStart
  /\ icoI' = 1
  /\ imageData' = << >>
  /\ icoEntries' = << >>
  /\ currentOffset' = 0
  /\ icoBuffer' = << >>
  /\ icoRet' = NoError
  /\ icoFileBefore' = icoFile
  /\ icoWrites' = 0
  /\ icoFailure' = NoFailure
  /\ icoRequests' = << >>
  /\ icoWriteErr' = NoError
  /\ runs' = runs + 1
  /\ UNCHANGED << target, iconSizes, standardIconTypes, oracle, built,
                  icoFile, icnsVars, scriptVars >>

\* The invocation calls CreateIco(svgPath, outputPath).
IcoCall ==
  /\ target \in {"ico", "both"}
  /\ icoPc = "idle"
  /\ IcoEnter

\* The request SvgToPng(svgPath, pxSize) and its result r, as logged.
Request(pxSize, r) == [size |-> pxSize, err |-> r.err, data |-> r.data]

\* Mutant of IcoRaster: the images rendered so far are flushed to outputPath
\* before the error is returned.
IcoRasterFlush(r) ==
  /\ icoRequests' = Append(icoRequests, Request(iconSizes[icoI], r))
  /\ IF r.err # NoError
     THEN /\ icoRet' = r.err
          /\ icoPc' = "returned"
          /\ icoFailure' = [index |-> icoI, size |-> iconSizes[icoI], err |-> r.err]
          /\ icoFile' = [exists |-> TRUE, data |-> Concat(imageData)]
          /\ icoWrites' = icoWrites + 1
          /\ UNCHANGED << icoI, imageData >>
     ELSE /\ imageData' = Append(imageData, r.data)
          /\ icoI' = icoI + 1
          /\ icoPc' = IF icoI + 1 > Len(iconSizes) THEN "entries" ELSE "raster"
          /\ UNCHANGED << icoRet, icoFailure, icoFile, icoWrites >>
  /\ UNCHANGED << target, iconSizes, standardIconTypes, runs, built,
                  icoEntries, currentOffset, icoBuffer, icoFileBefore,
                  icoWriteErr, icnsVars, scriptVars >>

\* Mutant of IcoRaster: a failed size is skipped and the loop goes on; the
\* call returns the last error once every size was requested.
IcoRasterKeepGoing(r) ==
  /\ icoRequests' = Append(icoRequests, Request(iconSizes[icoI], r))
  /\ icoI' = icoI + 1
  /\ IF r.err # NoError
     THEN /\ icoRet' = r.err
          /\ icoFailure' = [index |-> icoI, size |-> iconSizes[icoI], err |-> r.err]
          /\ UNCHANGED imageData
     ELSE /\ imageData' = Append(imageData, r.data)
          /\ UNCHANGED << icoRet, icoFailure >>
  /\ icoPc' = IF icoI + 1 <= Len(iconSizes) THEN "raster"
              ELSE IF icoRet' # NoError THEN "returned" ELSE "entries"
  /\ UNCHANGED << target, iconSizes, standardIconTypes, runs, built,
                  icoEntries, currentOffset, icoBuffer, icoFile,
                  icoFileBefore, icoWrites, icoWriteErr, icnsVars, scriptVars >>

\* ico.go:45-51, one iteration with r the result of png.SvgToPng:
\* an error is returned as it is, a payload is appended to imageData.
IcoRaster(r) ==
  /\ icoRequests' = Append(icoRequests, Request(iconSizes[icoI], r))
  /\ IF r.err # NoError
     THEN /\ icoRet' = r.err
          /\ icoPc' = "returned"
          /\ icoFailure' = [index |-> icoI, size |-> iconSizes[icoI], err |-> r.err]
          /\ UNCHANGED << icoI, imageData >>
     ELSE /\ imageData' = Append(imageData, r.data)
          /\ icoI' = icoI + 1
          /\ icoPc' = IF icoI + 1 > Len(iconSizes) THEN "entries" ELSE "raster"
          /\ UNCHANGED << icoRet, icoFailure >>
  /\ UNCHANGED << target, iconSizes, standardIconTypes, runs, built,
                  icoEntries, currentOffset, icoBuffer, icoFile,
                  icoFileBefore, icoWrites, icoWriteErr, icnsVars, scriptVars >>

\* One iteration of the loop, the rasterizer free to give any result.
IcoRasterStep ==
  /\ icoPc = "raster"
  /\ icoI <= Len(iconSizes)
  /\ \E r \in RasterResults(iconSizes[icoI], ExtraBytes(imageData)) : IcoRaster(r)
  /\ UNCHANGED oracle

\* Mutant of FirstOffset: the 6 header bytes are left out.
FirstOffsetNoHeader == U32(Len(iconSizes) * 16)

\* ico.go:54-56
FirstOffset == U32(6 + Len(iconSizes) * 16)

\* Mutant of EntryDimension: the substitution is made for the wrong size.
EntryDimensionWrongSize(currentSize) == IF currentSize = 128 THEN 0 ELSE U8(currentSize)

\* ico.go:60-66: uint8(currentSize), and 0 for 256 pixels.
EntryDimension(currentSize) == IF currentSize = 256 THEN 0 ELSE U8(currentSize)

\* Mutant of MakeEntry: the bit depth is derived from the size (8 bits for
\* the small icons) and BytesInRes counts the directory entry as well.
MakeEntryBySize(currentSize, data, offset) ==
  [ Width       |-> EntryDimension(currentSize),
    Height      |-> EntryDimension(currentSize),
    ColorCount  |-> 0,
    Reserved    |-> 0,
    Planes      |-> 1,
    BitCount    |-> IF currentSize < 48 THEN 8 ELSE 32,
    BytesInRes  |-> U32(Len(data) + 16),
    ImageOffset |-> offset ]

\* ico.go:68-77
MakeEntry(currentSize, data, offset) ==
  [ Width       |-> EntryDimension(currentSize),
    Height      |-> EntryDimension(currentSize),
    ColorCount  |-> 0,
    Reserved    |-> 0,
    Planes      |-> 1,
    BitCount    |-> 32,
    BytesInRes  |-> U32(Len(data)),
    ImageOffset |-> offset ]

\* Mutant of AdvanceOffset: the offset advances by the size of a directory
\* entry, not by the payload's length.
AdvanceOffsetByEntry(offset, data) == U32(offset + 16)

\* ico.go:79
AdvanceOffset(offset, data) == U32(offset + U32(Len(data)))

\* ico.go:59-80: the loop from index i on, as [entries, offset].
RECURSIVE EntriesLoop(_, _, _, _)
EntriesLoop(i, data, entries, offset) ==
  IF i > Len(iconSizes)
  THEN [entries |-> entries, offset |-> offset]
  ELSE EntriesLoop(i + 1, data,
                   Append(entries, MakeEntry(iconSizes[i], data[i], offset)),
                   AdvanceOffset(offset, data[i]))

\* Mutant of IcoBuildEntries: the substitution of 0 for 256 is made in the
\* size list itself.
IcoBuildEntriesInPlace ==
  /\ icoPc = "entries"
  /\ LET r == EntriesLoop(1, imageData, icoEntries, FirstOffset)
     IN /\ icoEntries' = r.entries
        /\ currentOffset' = r.offset
  /\ iconSizes' = [k \in 1..Len(iconSizes) |->
                     IF iconSizes[k] = 256 THEN 0 ELSE iconSizes[k]]
  /\ icoPc' = "serialize"
  /\ UNCHANGED << target, standardIconTypes, oracle, runs, built, icoI,
                  imageData, icoBuffer, icoRet, icoFile, icoFileBefore,
                  icoWrites, icoFailure, icoRequests, icoWriteErr, icnsVars,
                  scriptVars >>

\* ico.go:53-80
IcoBuildEntries ==
  /\ icoPc = "entries"
  /\ LET r == EntriesLoop(1, imageData, icoEntries, FirstOffset)
     IN /\ icoEntries' = r.entries
        /\ currentOffset' = r.offset
  /\ icoPc' = "serialize"
  /\ UNCHANGED << target, iconSizes, standardIconTypes, oracle, runs, built,
                  icoI, imageData, icoBuffer, icoRet, icoFile, icoFileBefore,
                  icoWrites, icoFailure, icoRequests, icoWriteErr, icnsVars,
                  scriptVars >>

\* Mutant of IcoHeader: the type word says cursor (2), not icon (1).
IcoHeaderCursor == LE16(0) \o LE16(2) \o LE16(Len(iconSizes))

\* ico.go:86-88
IcoHeader == LE16(0) \o LE16(1) \o LE16(Len(iconSizes))

\* ico.go:92-99
EntryBytes(e) ==
  << e.Width, e.Height, e.ColorCount, e.Reserved >> \o LE16(e.Planes) \o
  LE16(e.BitCount) \o LE32(e.BytesInRes) \o LE32(e.ImageOffset)

\* Mutant of IcoBytes: the payloads are written last to first.
IcoBytesReversed(entries, data) ==
  IcoHeader \o Concat([k \in 1..Len(entries) |-> EntryBytes(entries[k])]) \o
  Concat([k \in 1..Len(data) |-> data[Len(data) + 1 - k]])

\* ico.go:82-105
IcoBytes(entries, data) ==
  IcoHeader \o Concat([k \in 1..Len(entries) |-> EntryBytes(entries[k])]) \o Concat(data)

\* ico.go:82-105
IcoSerialize ==
  /\ icoPc = "serialize"
  /\ icoBuffer' = IcoBytes(icoEntries, imageData)
  /\ built' = Append(built, icoBuffer')
  /\ icoPc' = "open"
  /\ UNCHANGED << target, iconSizes, standardIconTypes, oracle, runs, icoI,
                  imageData, icoEntries, currentOffset, icoRet, icoFile,
                  icoFileBefore, icoWrites, icoFailure, icoRequests,
                  icoWriteErr, icnsVars, scriptVars >>

\* ico.go:108, os.WriteFile opens and truncates outputPath.
IcoOpenOk ==
  /\ icoPc = "open"
  /\ icoFile' = Truncated
  /\ icoWrites' = icoWrites + 1
  /\ icoPc' = "write"
  /\ UNCHANGED << target, iconSizes, standardIconTypes, oracle, runs, built,
                  icoI, imageData, icoEntries, currentOffset, icoBuffer,
                  icoRet, icoFileBefore, icoFailure, icoRequests, icoWriteErr,
                  icnsVars, scriptVars >>

\* ico.go:108-111, os.WriteFile cannot open outputPath.
IcoOpenFail ==
  /\ icoPc = "open"
  /\ icoWriteErr' = OpenError
  /\ icoRet' = OpenError
  /\ icoPc' = "returned"
  /\ UNCHANGED << target, iconSizes, standardIconTypes, oracle, runs, built,
                  icoI, imageData, icoEntries, currentOffset, icoBuffer,
                  icoFile, icoFileBefore, icoWrites, icoFailure, icoRequests,
                  icnsVars, scriptVars >>

\* ico.go:108-113, the write and the close succeed.
IcoWriteOk ==
  /\ icoPc = "write"
  /\ icoFile' = Written(icoBuffer, Len(icoBuffer))
  /\ icoWrites' = icoWrites + 1
  /\ icoRet' = NoError
  /\ icoPc' = "returned"
  /\ UNCHANGED << target, iconSizes, standardIconTypes, oracle, runs, built,
                  icoI, imageData, icoEntries, currentOffset, icoBuffer,
                  icoFileBefore, icoFailure, icoRequests, icoWriteErr,
                  icnsVars, scriptVars >>

\* Mutant of IcoWriteFail: the error of os.WriteFile is dropped and the call
\* returns nil.
IcoWriteFailSwallowed ==
  /\ icoPc = "write"
  /\ \E n \in PartialWrites(icoBuffer) : icoFile' = Written(icoBuffer, n)
  /\ icoWrites' = icoWrites + 1
  /\ icoWriteErr' = WriteError
  /\ icoRet' = NoError
  /\ icoPc' = "returned"
  /\ UNCHANGED << target, iconSizes, standardIconTypes, oracle, runs, built,
                  icoI, imageData, icoEntries, currentOffset, icoBuffer,
                  icoFileBefore, icoFailure, icoRequests, icnsVars, scriptVars >>

\* ico.go:108-111, the write fails after n bytes.
IcoWriteFail ==
  /\ icoPc = "write"
  /\ \E n \in PartialWrites(icoBuffer) : icoFile' = Written(icoBuffer, n)
  /\ icoWrites' = icoWrites + 1
  /\ icoWriteErr' = WriteError
  /\ icoRet' = WriteError
  /\ icoPc' = "returned"
  /\ UNCHANGED << target, iconSizes, standardIconTypes, oracle, runs, built,
                  icoI, imageData, icoEntries, currentOffset, icoBuffer,
                  icoFileBefore, icoFailure, icoRequests, icnsVars, scriptVars >>

\* --------------------------------------------------------------- CreateIcns

\* Mutant of IcnsEnter: the call creates its output file first and fills it
\* later.
IcnsEnterCreate ==
  /\ icnsPc' = "raster"
  /\ icnsI' = 1
  /\ icnsEntries' = << >>
  /\ totalSize' = 0
  /\ icnsBuffer' = << >>
  /\ icnsRet' = NoError
  /\ icnsFileBefore' = icnsFile
  /\ icnsFile' = Truncated
  /\ icnsWrites' = 1
  /\ icnsFailure' = NoFailure
  /\ icnsRequests' = << >>
  /\ icnsWriteErr' = NoError
  /\ runs' = runs + 1
  /\ UNCHANGED << target, iconSizes, standardIconTypes, oracle, built,
                  icoVars, scriptVars >>

\* icns.go:58: the local of a call, fresh on every call.
IcnsEnter ==
  /\ icnsPc' = "raster"
  /\ icnsI' = 1
  /\ icnsEntries' = << >>
  /\ totalSize' = 0
  /\ icnsBuffer' = << >>
  /\ icnsRet' = NoError
  /\ icnsFileBefore' = icnsFile
  /\ icnsWrites' = 0
  /\ icnsFailure' = NoFailure
  /\ icnsRequests' = << >>
  /\ icnsWriteErr' = NoError
  /\ runs' = runs + 1
  /\ UNCHANGED << target, iconSizes, standardIconTypes, oracle, built,
                  icoVars, icnsFile, scriptVars >>

\* The invocation calls CreateIcns(svgPath, outputPath).
IcnsCall ==
  /\ target \in {"icns", "both"}
  /\ icnsPc = "idle"
  /\ IcnsEnter

\* Mutant of CopyOSType: the code is stored length-prefixed, the length byte
\* and the first three characters.
CopyOSTypeLengthPrefixed(s) ==
  LET b == AsciiBytes(s) IN << Len(b), b[1], b[2], b[3] >>

\* Mutant of CopyOSType: the code is stored as a C string, three characters
\* and a terminating zero.
CopyOSTypeTerminated(s) ==
  LET b == AsciiBytes(s) IN [k \in 1..4 |-> IF k <= 3 THEN b[k] ELSE 0]

\* icns.go:67-68: copy fills the 4-byte array from the string, as many bytes
\* as both hold; the array starts zeroed.
CopyOSType(s) ==
  LET b == AsciiBytes(s) IN [k \in 1..4 |-> IF k <= Len(b) THEN b[k] ELSE 0]

\* Mutant of EntryLength: the 8 bytes of the entry's own header are left out.
EntryLengthNoHeader(pngData) == U32(Len(pngData))

\* icns.go:72
EntryLength(pngData) == U32(Len(pngData) + 8)

\* icns.go:70-74
MakeIconEntry(iconType, pngData) ==
  [ OSType |-> CopyOSType(iconType.OSType),
    Length |-> EntryLength(pngData),
    Data   |-> pngData ]

\* Mutant of IcnsRaster: the entries built so far are flushed to outputPath
\* before the error is returned.
IcnsRasterFlush(r) ==
  /\ icnsRequests' = Append(icnsRequests, Request(standardIconTypes[icnsI].Size, r))
  /\ IF r.err # NoError
     THEN /\ icnsRet' = r.err
          /\ icnsPc' = "returned"
          /\ icnsFailure' = [index |-> icnsI, size |-> standardIconTypes[icnsI].Size,
                               err |-> r.err]
          /\ icnsFile' = [exists |-> TRUE,
                          data |-> Concat([k \in 1..Len(icnsEntries) |-> icnsEntries[k].Data])]
          /\ icnsWrites' = icnsWrites + 1
          /\ UNCHANGED << icnsI, icnsEntries >>
     ELSE /\ icnsEntries' = Append(icnsEntries, MakeIconEntry(standardIconTypes[icnsI], r.data))
          /\ icnsI' = icnsI + 1
          /\ icnsPc' = IF icnsI + 1 > Len(standardIconTypes) THEN "total" ELSE "raster"
          /\ UNCHANGED << icnsRet, icnsFailure, icnsFile, icnsWrites >>
  /\ UNCHANGED << target, iconSizes, standardIconTypes, runs, built, icoVars,
                  totalSize, icnsBuffer, icnsFileBefore, icnsWriteErr,
                  scriptVars >>

\* The payloads of the entries built so far.
EntryData(entries) == [k \in 1..Len(entries) |-> entries[k].Data]

\* The entries built so far whose table element has the pixel size pxSize.
SameSize(entries, pxSize) ==
  { k \in 1..Len(entries) : standardIconTypes[k].Size = pxSize }

\* Mutant of IcnsRaster: a size already rendered in this call is not
\* requested again, the entry takes the payload of the earlier entry.
IcnsRasterShared(r) ==
  /\ IF SameSize(icnsEntries, standardIconTypes[icnsI].Size) # {}
     THEN /\ icnsEntries' = Append(icnsEntries,
               MakeIconEntry(standardIconTypes[icnsI],
                 icnsEntries[CHOOSE k \in SameSize(icnsEntries,
                                      standardIconTypes[icnsI].Size) : TRUE].Data))
          /\ icnsI' = icnsI + 1
          /\ icnsPc' = IF icnsI + 1 > Len(standardIconTypes) THEN "total" ELSE "raster"
          /\ UNCHANGED << icnsRet, icnsFailure, icnsRequests >>
     ELSE /\ icnsRequests' = Append(icnsRequests, Request(standardIconTypes[icnsI].Size, r))
          /\ IF r.err # NoError
             THEN /\ icnsRet' = r.err
                  /\ icnsPc' = "returned"
                  /\ icnsFailure' = [index |-> icnsI, size |-> standardIconTypes[icnsI].Size,
                                     err |-> r.err]
                  /\ UNCHANGED << icnsI, icnsEntries >>
             ELSE /\ icnsEntries' = Append(icnsEntries,
                                           MakeIconEntry(standardIconTypes[icnsI], r.data))
                  /\ icnsI' = icnsI + 1
                  /\ icnsPc' = IF icnsI + 1 > Len(standardIconTypes) THEN "total" ELSE "raster"
                  /\ UNCHANGED << icnsRet, icnsFailure >>
  /\ UNCHANGED << target, iconSizes, standardIconTypes, runs, built, icoVars,
                  totalSize, icnsBuffer, icnsFile, icnsFileBefore, icnsWrites,
                  icnsWriteErr, scriptVars >>

\* icns.go:61-76, one iteration with r the result of png.SvgToPng:
\* an error is returned as it is, a payload becomes the next entry.
IcnsRaster(r) ==
  /\ icnsRequests' = Append(icnsRequests, Request(standardIconTypes[icnsI].Size, r))
  /\ IF r.err # NoError
     THEN /\ icnsRet' = r.err
          /\ icnsPc' = "returned"
          /\ icnsFailure' = [index |-> icnsI, size |-> standardIconTypes[icnsI].Size,
                               err |-> r.err]
          /\ UNCHANGED << icnsI, icnsEntries >>
     ELSE /\ icnsEntries' = Append(icnsEntries, MakeIconEntry(standardIconTypes[icnsI], r.data))
          /\ icnsI' = icnsI + 1
          /\ icnsPc' = IF icnsI + 1 > Len(standardIconTypes) THEN "total" ELSE "raster"
          /\ UNCHANGED << icnsRet, icnsFailure >>
  /\ UNCHANGED << target, iconSizes, standardIconTypes, runs, built, icoVars,
                  totalSize, icnsBuffer, icnsFile, icnsFileBefore, icnsWrites,
                  icnsWriteErr, scriptVars >>

\* One iteration of the loop, the rasterizer free to give any result.
IcnsRasterStep ==
  /\ icnsPc = "raster"
  /\ icnsI <= Len(standardIconTypes)
  /\ \E r \in RasterResults(standardIconTypes[icnsI].Size,
                             ExtraBytes(EntryData(icnsEntries))) : IcnsRaster(r)
  /\ UNCHANGED oracle

\* icns.go:80-83: the loop from index i on, total the sum so far.
RECURSIVE TotalLoop(_, _, _)
TotalLoop(i, entries, total) ==
  IF i > Len(entries) THEN total
  ELSE TotalLoop(i + 1, entries, U32(total + entries[i].Length))

\* Mutant of IcnsTotal: the sum starts at 0, the 8 bytes of the file header
\* are not counted.
IcnsTotalFromZero ==
  /\ icnsPc = "total"
  /\ totalSize' = TotalLoop(1, icnsEntries, U32(0))
  /\ icnsPc' = "serialize"
  /\ UNCHANGED << target, iconSizes, standardIconTypes, oracle, runs, built,
                  icoVars, icnsI, icnsEntries, icnsBuffer, icnsRet, icnsFile,
                  icnsFileBefore, icnsWrites, icnsFailure, icnsRequests,
                  icnsWriteErr, scriptVars >>

\* icns.go:78-83
IcnsTotal ==
  /\ icnsPc = "total"
  /\ totalSize' = TotalLoop(1, icnsEntries, U32(8))
  /\ icnsPc' = "serialize"
  /\ UNCHANGED << target, iconSizes, standardIconTypes, oracle, runs, built,
                  icoVars, icnsI, icnsEntries, icnsBuffer, icnsRet, icnsFile,
                  icnsFileBefore, icnsWrites, icnsFailure, icnsRequests,
                  icnsWriteErr, scriptVars >>

\* Mutant of IconEntryBytes: the payload is padded with zeros to a multiple
\* of 4 bytes.
IconEntryBytesPadded(e) ==
  e.OSType \o BE32(e.Length) \o e.Data \o
  [j \in 1..((4 - (Len(e.Data) % 4)) % 4) |-> 0]

\* icns.go:97-102
IconEntryBytes(e) == e.OSType \o BE32(e.Length) \o e.Data

\* icns.go:86-103 (binary.Write of a uint32 into a bytes.Buffer returns no
\* error, so the returns at lines 92 and 99 are not taken)
IcnsBytes(total, entries) ==
  AsciiBytes("icns") \o BE32(total) \o
  Concat([k \in 1..Len(entries) |-> IconEntryBytes(entries[k])])

\* Mutant of IcnsSerialize: the two encoders serialize into one shared
\* package-level buffer.
IcnsSerializeShared ==
  /\ icnsPc = "serialize"
  /\ icnsBuffer' = IcnsBytes(totalSize, icnsEntries)
  /\ icoBuffer' = icnsBuffer'
  /\ built' = Append(built, icnsBuffer')
  /\ icnsPc' = "open"
  /\ UNCHANGED << target, iconSizes, standardIconTypes, oracle, runs, icoPc,
                  icoI, imageData, icoEntries, currentOffset, icoRet, icoFile,
                  icoFileBefore, icoWrites, icoFailure, icoRequests,
                  icoWriteErr, icnsI, icnsEntries, totalSize, icnsRet,
                  icnsFile, icnsFileBefore, icnsWrites, icnsFailure,
                  icnsRequests, icnsWriteErr, scriptVars >>

\* icns.go:85-103
IcnsSerialize ==
  /\ icnsPc = "serialize"
  /\ icnsBuffer' = IcnsBytes(totalSize, icnsEntries)
  /\ built' = Append(built, icnsBuffer')
  /\ icnsPc' = "open"
  /\ UNCHANGED << target, iconSizes, standardIconTypes, oracle, runs, icoVars,
                  icnsI, icnsEntries, totalSize, icnsRet, icnsFile,
                  icnsFileBefore, icnsWrites, icnsFailure, icnsRequests,
                  icnsWriteErr, scriptVars >>

\* icns.go:106, os.WriteFile opens and truncates outputPath.
IcnsOpenOk ==
  /\ icnsPc = "open"
  /\ icnsFile' = Truncated
  /\ icnsWrites' = icnsWrites + 1
  /\ icnsPc' = "write"
  /\ UNCHANGED << target, iconSizes, standardIconTypes, oracle, runs, built,
                  icoVars, icnsI, icnsEntries, totalSize, icnsBuffer, icnsRet,
                  icnsFileBefore, icnsFailure, icnsRequests, icnsWriteErr,
                  scriptVars >>

\* icns.go:106-109, os.WriteFile cannot open outputPath.
IcnsOpenFail ==
  /\ icnsPc = "open"
  /\ icnsWriteErr' = OpenError
  /\ icnsRet' = OpenError
  /\ icnsPc' = "returned"
  /\ UNCHANGED << target, iconSizes, standardIconTypes, oracle, runs, built,
                  icoVars, icnsI, icnsEntries, totalSize, icnsBuffer,
                  icnsFile, icnsFileBefore, icnsWrites, icnsFailure,
                  icnsRequests, scriptVars >>

\* icns.go:106-111, the write and the close succeed.
IcnsWriteOk ==
  /\ icnsPc = "write"
  /\ icnsFile' = Written(icnsBuffer, Len(icnsBuffer))
  /\ icnsWrites' = icnsWrites + 1
  /\ icnsRet' = NoError
  /\ icnsPc' = "returned"
  /\ UNCHANGED << target, iconSizes, standardIconTypes, oracle, runs, built,
                  icoVars, icnsI, icnsEntries, totalSize, icnsBuffer,
                  icnsFileBefore, icnsFailure, icnsRequests, icnsWriteErr,
                  scriptVars >>

\* icns.go:106-109, the write fails after n bytes.
IcnsWriteFail ==
  /\ icnsPc = "write"
  /\ \E n \in PartialWrites(icnsBuffer) : icnsFile' = Written(icnsBuffer, n)
  /\ icnsWrites' = icnsWrites + 1
  /\ icnsWriteErr' = WriteError
  /\ icnsRet' = WriteError
  /\ icnsPc' = "returned"
  /\ UNCHANGED << target, iconSizes, standardIconTypes, oracle, runs, built,
                  icoVars, icnsI, icnsEntries, totalSize, icnsBuffer,
                  icnsFileBefore, icnsFailure, icnsRequests, scriptVars >>

\* ------------------------------------------------------------ specification

\* One invocation of the tool with an .ico or an .icns output path: one call
\* of the matching encoder, the rasterizer free at every request.
Next ==
  \/ IcoCall
  \/ IcoRasterStep
  \/ IcoBuildEntries
  \/ IcoSerialize
  \/ IcoOpenOk
  \/ IcoOpenFail
  \/ IcoWriteOk
  \/ IcoWriteFail
  \/ IcnsCall
  \/ IcnsRasterStep
  \/ IcnsTotal
  \/ IcnsSerialize
  \/ IcnsOpenOk
  \/ IcnsOpenFail
  \/ IcnsWriteOk
  \/ IcnsWriteFail

Spec == Init /\ [][Next]_vars

\* ------------------------------------------- the same source, encoded again

\* The bytes the payloads the rasterizer gave so far hold beyond one each.
RECURSIVE ExtraOf(_)
ExtraOf(sizes) ==
  IF sizes = {} THEN 0
  ELSE LET s == CHOOSE x \in sizes : TRUE
       IN (IF oracle[s].err = NoError THEN Len(oracle[s].data) - 1 ELSE 0)
          + ExtraOf(sizes \ {s})

OracleExtra == ExtraOf(DOMAIN oracle)

\* A deterministic rasterizer: the first request for a size is free, every
\* later request for that size, in this call or a later one, gives the same
\* payload or the same failure.
OracleResults(pxSize) ==
  IF pxSize \in DOMAIN oracle THEN {oracle[pxSize]}
  ELSE RasterResults(pxSize, OracleExtra)

Remember(pxSize, r) ==
  IF pxSize \in DOMAIN oracle THEN oracle ELSE oracle @@ (pxSize :> r)

IcoRasterStepDet ==
  /\ icoPc = "raster"
  /\ icoI <= Len(iconSizes)
  /\ \E r \in OracleResults(iconSizes[icoI]) :
        /\ IcoRaster(r)
        /\ oracle' = Remember(iconSizes[icoI], r)

IcnsRasterStepDet ==
  /\ icnsPc = "raster"
  /\ icnsI <= Len(standardIconTypes)
  /\ \E r \in OracleResults(standardIconTypes[icnsI].Size) :
        /\ IcnsRaster(r)
        /\ oracle' = Remember(standardIconTypes[icnsI].Size, r)

\* CreateIco is called again once it has returned.
IcoRecall ==
  /\ icoPc = "returned"
  /\ runs < NumRuns
  /\ IcoEnter

\* CreateIcns is called again once it has returned.
IcnsRecall ==
  /\ icnsPc = "returned"
  /\ runs < NumRuns
  /\ IcnsEnter

NextDet ==
  \/ IcoCall
  \/ IcoRecall
  \/ IcoRasterStepDet
  \/ IcoBuildEntries
  \/ IcoSerialize
  \/ IcoOpenOk
  \/ IcoOpenFail
  \/ IcoWriteOk
  \/ IcoWriteFail
  \/ IcnsCall
  \/ IcnsRecall
  \/ IcnsRasterStepDet
  \/ IcnsTotal
  \/ IcnsSerialize
  \/ IcnsOpenOk
  \/ IcnsOpenFail
  \/ IcnsWriteOk
  \/ IcnsWriteFail

SpecDet == Init /\ [][NextDet]_vars

\* ------------------------------------------- CreateIco over other size lists

\* ico.IconSizes is an exported package variable: CreateIco ranges over
\* whatever list it holds when the call starts.  Here it holds a prefix of
\* the declared list, the empty one included, and CreateIco is called once.
SizeLists == { SubSeq(IconSizes, 1, n) : n \in 0..Min(MaxListLen, Len(IconSizes)) }

InitSizes ==
  /\ target = "ico"
  /\ iconSizes \in SizeLists
  /\ standardIconTypes = StandardIconTypes
  /\ icoFile \in {NoFile, OldFile}
  /\ icnsFile = NoFile
  /\ InitState
  /\ ScriptsIdle

NextSizes ==
  \/ IcoCall
  \/ IcoRasterStep
  \/ IcoBuildEntries
  \/ IcoSerialize
  \/ IcoOpenOk
  \/ IcoOpenFail
  \/ IcoWriteOk
  \/ IcoWriteFail

SpecSizes == InitSizes /\ [][NextSizes]_vars

\* ------------------------------------------------- two encodes at one time

\* CreateIco and CreateIcns are called on the same source with two output
\* paths, a file at each, and run at the same time, their steps interleaved
\* in any order.
\* The source is one file: a size rendered for one call gives the other the
\* same payload or the same failure.
InitConc ==
  /\ target = "both"
  /\ iconSizes = IconSizes
  /\ standardIconTypes = StandardIconTypes
  /\ icoFile = OldFile
  /\ icnsFile = OldFile
  /\ InitState
  /\ ScriptsIdle

NextConc ==
  \/ IcoCall
  \/ IcoRasterStepDet
  \/ IcoBuildEntries
  \/ IcoSerialize
  \/ IcoOpenOk
  \/ IcoOpenFail
  \/ IcoWriteOk
  \/ IcoWriteFail
  \/ IcnsCall
  \/ IcnsRasterStepDet
  \/ IcnsTotal
  \/ IcnsSerialize
  \/ IcnsOpenOk
  \/ IcnsOpenFail
  \/ IcnsWriteOk
  \/ IcnsWriteFail

SpecConc == InitConc /\ [][NextConc]_vars

\* ------------------------------------------------------- longer payloads

\* What one request can give in SpecWide: an error, a payload of one byte
\* or a long one.
WideResults(pxSize) ==
  { [err |-> e, data |-> <<>>] : e \in RasterErrors } \cup
  { [err |-> NoError, data |-> Payload(pxSize, n)] : n \in {1, WidePayloadLen} }

IcoRasterStepWide ==
  /\ icoPc = "raster"
  /\ icoI <= Len(iconSizes)
  /\ \E r \in WideResults(iconSizes[icoI]) : IcoRaster(r)
  /\ UNCHANGED oracle

IcnsRasterStepWide ==
  /\ icnsPc = "raster"
  /\ icnsI <= Len(standardIconTypes)
  /\ \E r \in WideResults(standardIconTypes[icnsI].Size) : IcnsRaster(r)
  /\ UNCHANGED oracle

\* One call of one encoder, as in Spec, over payloads short and long.
NextWide ==
  \/ IcoCall
  \/ IcoRasterStepWide
  \/ IcoBuildEntries
  \/ IcoSerialize
  \/ IcoOpenOk
  \/ IcoOpenFail
  \/ IcoWriteOk
  \/ IcoWriteFail
  \/ IcnsCall
  \/ IcnsRasterStepWide
  \/ IcnsTotal
  \/ IcnsSerialize
  \/ IcnsOpenOk
  \/ IcnsOpenFail
  \/ IcnsWriteOk
  \/ IcnsWriteFail

SpecWide == Init /\ [][NextWide]_vars

\* ------------------------------------------------------ scripts/uninstall.sh

\* uninstall.sh:9
BINARY_NAME == "svg2icon"

\* uninstall.sh:10-15
POSSIBLE_INSTALL_DIRS ==
  << "/usr/local/bin", "$HOME/.local/bin", "/opt/svg2icon/bin", "/usr/bin" >>

\* A directory that may be in PATH and is none of POSSIBLE_INSTALL_DIRS.
OtherPathDir == "$HOME/bin"

\* uninstall.sh:102-108
ShellProfiles ==
  { "$HOME/.bashrc", "$HOME/.bash_profile", "$HOME/.zshrc",
    "$HOME/.config/fish/config.fish", "$HOME/.profile" }

\* A path is a directory and a file name; the empty string is the path with
\* neither.
EmptyPath == [dir |-> "", name |-> ""]

\* "$dir/$BINARY_NAME" (uninstall.sh:48-49)
BinaryIn(dir) == [dir |-> dir, name |-> BINARY_NAME]

\* dirname "$binary_path" (uninstall.sh:70): "." for the empty string.
Dirname(p) == IF p.dir = "" THEN "." ELSE p.dir

\* The directories the binary may be installed in.
BinaryDirs ==
  { POSSIBLE_INSTALL_DIRS[k] : k \in 1..Len(POSSIBLE_INSTALL_DIRS) } \cup {OtherPathDir}

\* command -v "$BINARY_NAME" (uninstall.sh:54-56): the file PATH finds, a
\* set of at most one path.
CommandV(files) ==
  IF shPathDir # "" /\ BinaryIn(shPathDir) \in files
  THEN { BinaryIn(shPathDir) } ELSE {}

\* uninstall.sh:47-51: the loop from index k on, found the paths so far.
RECURSIVE CheckDirs(_, _, _)
CheckDirs(k, files, found) ==
  IF k > Len(POSSIBLE_INSTALL_DIRS) THEN found
  ELSE CheckDirs(k + 1, files,
                 IF BinaryIn(POSSIBLE_INSTALL_DIRS[k]) \in files
                 THEN Append(found, BinaryIn(POSSIBLE_INSTALL_DIRS[k]))
                 ELSE found)

\* uninstall.sh:44-61: the array found_paths of find_installed_binary.
FoundPaths(files) ==
  LET found == CheckDirs(1, files, << >>)
      here == CommandV(files)
  IN IF here # {} /\ \A k \in 1..Len(found) : found[k] \notin here
     THEN Append(found, CHOOSE p \in here : TRUE)
     ELSE found

\* uninstall.sh:63, printf '%s\n' "${found_paths[@]}": one line for each
\* argument, and the format once, an empty line, when there is no argument.
PrintfLines(args) == IF args = << >> THEN << EmptyPath >> ELSE args

\* readarray -t found_paths < <(find_installed_binary) (uninstall.sh:132,
\* 145, 176): one element for each line of the output.
ReadFoundPaths(files) == PrintfLines(FoundPaths(files))

\* The script ends with the given status after printing msgs.
ShExit(status, msgs) ==
  /\ shOut' = shOut \o msgs
  /\ shStatus' = status
  /\ shPc' = "exited"

\* uninstall.sh:216, 165-167: the script is run.
ShCall ==
  /\ target = "uninstall.sh"
  /\ shPc = "idle"
  /\ shPc' = "check"
  /\ shOut' = Append(shOut, "svg2icon Uninstallation Script")
  /\ UNCHANGED << encoderVars, relVars, batVars, shFiles, shDirs, shProfiles,
                  shPathDir, shTty, shArithExit, found_paths, shI,
                  removed_count, shStatus, shRm, shAsked >>

\* uninstall.sh:170-172 with check_installation (130-140).
ShCheckInstallation ==
  /\ shPc = "check"
  /\ IF Len(ReadFoundPaths(shFiles)) = 0
     THEN ShExit(0, << "svg2icon is not installed or not found in common locations" >>)
     ELSE /\ shPc' = "paths"
          /\ UNCHANGED << shOut, shStatus >>
  /\ UNCHANGED << encoderVars, relVars, batVars, shFiles, shDirs, shProfiles,
                  shPathDir, shTty, shArithExit, found_paths, shI,
                  removed_count, shRm, shAsked >>

\* Where the script goes on to remove what it found: lines 184-185.
ShEnterLoop ==
  /\ removed_count' = 0
  /\ shI' = 1
  /\ shPc' = IF Len(found_paths') = 0 THEN "report" ELSE "remove"

\* uninstall.sh:175-181: the array is read again; on a terminal the script
\* asks first.
ShReadPaths ==
  /\ shPc = "paths"
  /\ found_paths' = ReadFoundPaths(shFiles)
  /\ IF shTty
     THEN /\ shPc' = "confirm"
          /\ UNCHANGED << removed_count, shI >>
     ELSE ShEnterLoop
  /\ UNCHANGED << encoderVars, relVars, batVars, shFiles, shDirs, shProfiles,
                  shPathDir, shTty, shArithExit, shStatus, shOut, shRm,
                  shAsked >>

\* What the user may type at the prompt.
Answers == { "y", "Y", "n", "" }

\* uninstall.sh:180 with confirm_uninstall (143-162).
ShConfirm ==
  /\ shPc = "confirm"
  /\ shAsked' = TRUE
  /\ \E confirm \in Answers :
       IF confirm \in { "y", "Y" }
       THEN /\ UNCHANGED << found_paths, shStatus >>
            /\ shOut' = Append(shOut, "Do you want to continue? (y/N): ")
            /\ ShEnterLoop
       ELSE /\ ShExit(0, << "Do you want to continue? (y/N): ", "Uninstallation cancelled" >>)
            /\ UNCHANGED << found_paths, removed_count, shI >>
  /\ UNCHANGED << encoderVars, relVars, batVars, shFiles, shDirs, shProfiles,
                  shPathDir, shTty, shArithExit, found_paths, shRm >>

\* uninstall.sh:186 with remove_binary (67-91) for the path of this
\* iteration.  The directory is writable, or sudo is there, or neither; rm
\* -f removes the file or leaves it (it reports no error for a path that
\* does not exist).
ShRemoveBinary ==
  /\ shPc = "remove"
  /\ shI <= Len(found_paths)
  /\ LET binary_path == found_paths[shI]
     IN \E access \in { "writable", "sudo", "none" } : \E gone \in BOOLEAN :
          IF access = "none"
          THEN /\ ShExit(1, << "Removing binary", "Error: Cannot remove" >>)
               /\ UNCHANGED << shFiles, shRm >>
          ELSE /\ shRm' = Append(shRm, binary_path)
               /\ shFiles' = IF gone THEN shFiles \ {binary_path} ELSE shFiles
               /\ IF binary_path \notin shFiles'
                  THEN /\ shOut' = shOut \o << "Removing binary", "Successfully removed" >>
                       /\ shPc' = "count"
                       /\ UNCHANGED shStatus
                  ELSE ShExit(1, << "Removing binary", "Error: Failed to remove" >>)
  /\ UNCHANGED << encoderVars, relVars, batVars, shDirs, shProfiles,
                  shPathDir, shTty, shArithExit, found_paths, shI,
                  removed_count, shAsked >>

\* uninstall.sh:187-197.  ((removed_count++)) has the status 1 when the
\* value of the expression, the count before the increment, is 0; under
\* set -e (line 7) the shell then exits with that status.  Otherwise
\* clean_path_entries (95-118) and cleanup_directories (122-127) print
\* and the loop goes on.
ShCount ==
  /\ shPc = "count"
  /\ removed_count' = removed_count + 1
  /\ IF shArithExit /\ removed_count = 0
     THEN /\ ShExit(1, << >>)
          /\ UNCHANGED shI
     ELSE /\ shOut' = shOut \o << "Preserving PATH entries", "Preserving installation directory" >>
          /\ shI' = shI + 1
          /\ shPc' = IF shI + 1 > Len(found_paths) THEN "report" ELSE "remove"
          /\ UNCHANGED shStatus
  /\ UNCHANGED << encoderVars, relVars, batVars, shFiles, shDirs, shProfiles,
                  shPathDir, shTty, shArithExit, found_paths, shRm, shAsked >>

\* uninstall.sh:199-213
ShReport ==
  /\ shPc = "report"
  /\ IF removed_count > 0
     THEN ShExit(0, << "svg2icon uninstallation completed!", "Removed installation(s)",
                       IF CommandV(shFiles) # {}
                       THEN "svg2icon is still found in PATH"
                       ELSE "svg2icon binary successfully removed" >>)
     ELSE ShExit(1, << "Error: No installations were removed" >>)
  /\ UNCHANGED << encoderVars, relVars, batVars, shFiles, shDirs, shProfiles,
                  shPathDir, shTty, shArithExit, found_paths, shI,
                  removed_count, shRm, shAsked >>

\* The environment of one run of uninstall.sh: binaries in any of the
\* directories, one of them perhaps in PATH, with or without a terminal.
ShInit ==
  /\ shFiles \in SUBSET { BinaryIn(d) : d \in BinaryDirs }
  /\ shDirs = BinaryDirs \cup {"."}
  /\ shProfiles \in { [p \in ShellProfiles |-> IF p = q THEN "export PATH" ELSE "none"] :
                        q \in { "$HOME/.bashrc", "no profile" } }
  /\ shPathDir \in BinaryDirs \cup {""}
  /\ shTty \in BOOLEAN
  /\ shArithExit \in BOOLEAN
  /\ shPc = "idle"
  /\ found_paths = << >>
  /\ shI = 1
  /\ removed_count = 0
  /\ shStatus = -1
  /\ shOut = << >>
  /\ shRm = << >>
  /\ shAsked = FALSE

\* The encoders are not called.
EncodersIdle ==
  /\ iconSizes = IconSizes
  /\ standardIconTypes = StandardIconTypes
  /\ icoFile = NoFile
  /\ icnsFile = NoFile
  /\ InitState

InitUninstall ==
  /\ target = "uninstall.sh"
  /\ EncodersIdle
  /\ ShInit
  /\ RelIdle
  /\ BatIdle

NextUninstall ==
  \/ ShCall
  \/ ShCheckInstallation
  \/ ShReadPaths
  \/ ShConfirm
  \/ ShRemoveBinary
  \/ ShCount
  \/ ShReport

SpecUninstall == InitUninstall /\ [][NextUninstall]_vars

\* --------------------------------------------------------- the release script

\* part_003:216-223
expected_binaries ==
  { "svg2icon_windows_amd64.exe", "svg2icon_windows_arm64.exe",
    "svg2icon_darwin_amd64", "svg2icon_darwin_arm64",
    "svg2icon_linux_amd64", "svg2icon_linux_arm64" }

\* The script ends with this status: error() (part_003:30-33), exit 0
\* (part_003:335), the end of main, or a failed command under set -e
\* (part_003:6).
RelExit(status) ==
  /\ relPc' = "exited"
  /\ relStatus' = status

\* A step of part_003:338-345 was started and ended this way.
RelStep(step, ok) == relLog' = Append(relLog, [step |-> step, ok |-> ok])

\* part_003:364, 295-300
RelCall ==
  /\ target = "release.sh"
  /\ relPc = "idle"
  /\ relPc' = "prerequisites"
  /\ UNCHANGED << encoderVars, shVars, batVars, relVersionFrom, relStatus,
                  relConfirmed, relBinaries, relVerified, relTag, relPushed,
                  relReleased, relLog >>

\* part_003:48-77: git repository, gh, gh authentication, go, build.sh
RelCheckPrerequisites ==
  /\ relPc = "prerequisites"
  /\ \E satisfied \in BOOLEAN :
       IF satisfied
       THEN relPc' = "version" /\ UNCHANGED relStatus
       ELSE RelExit(1)
  /\ UNCHANGED << encoderVars, shVars, batVars, relVersionFrom, relConfirmed,
                  relBinaries, relVerified, relTag, relPushed, relReleased,
                  relLog >>

\* part_003:306-312 with get_version (111-144), validate_version (80-94) and
\* check_tag_exists (97-108). An invalid or empty version and a tag that
\* exists end the command substitution with status 1 or with no output.
RelGetVersion ==
  /\ relPc = "version"
  /\ \E valid \in BOOLEAN, tagExists \in BOOLEAN :
       IF valid /\ ~tagExists
       THEN relPc' = "confirm" /\ UNCHANGED relStatus
       ELSE RelExit(1)
  /\ UNCHANGED << encoderVars, shVars, batVars, relVersionFrom, relConfirmed,
                  relBinaries, relVerified, relTag, relPushed, relReleased,
                  relLog >>

\* The answers of the user at the prompts of part_003:253 and 332.
RelAnswers == { "y", "Y", "n", "yes", "" }

\* part_003:331-336
RelConfirm ==
  /\ relPc = "confirm"
  /\ \E confirm \in RelAnswers :
       IF confirm \in {"y", "Y"}
       THEN relConfirmed' = TRUE /\ relPc' = "build" /\ UNCHANGED relStatus
       ELSE RelExit(0) /\ UNCHANGED relConfirmed
  /\ UNCHANGED << encoderVars, shVars, batVars, relVersionFrom, relBinaries,
                  relVerified, relTag, relPushed, relReleased, relLog >>

\* part_003:339, build_binaries (203-232): build.sh leaves some of the
\* binaries in the build directory and succeeds or fails; a failure ends
\* the script (set -e), and so does the first binary that is missing.
RelBuildBinaries ==
  /\ relPc = "build"
  /\ \E buildOk \in BOOLEAN, produced \in SUBSET expected_binaries :
       /\ relBinaries' = produced
       /\ IF buildOk /\ expected_binaries \subseteq produced
          THEN /\ relVerified' = TRUE
               /\ relPc' = "tag"
               /\ RelStep("build", TRUE)
               /\ UNCHANGED relStatus
          ELSE /\ RelExit(1)
               /\ RelStep("build", FALSE)
               /\ UNCHANGED relVerified
  /\ UNCHANGED << encoderVars, shVars, batVars, relVersionFrom, relConfirmed,
                  relTag, relPushed, relReleased >>

\* part_003:342, create_tag (235-263). The version read at the prompt
\* carries the lines get_version printed before it (117-132 write to the
\* captured standard output), and git refuses it as a tag name.
RelCreateTag ==
  /\ relPc = "tag"
  /\ \E detached \in BOOLEAN, uncommitted \in BOOLEAN, confirm \in RelAnswers,
        tagOk \in BOOLEAN :
       IF /\ ~detached
          /\ uncommitted => confirm \in {"y", "Y"}
          /\ relVersionFrom = "argument"
          /\ tagOk
       THEN /\ relTag' = TRUE
            /\ relPc' = "push"
            /\ RelStep("tag", TRUE)
            /\ UNCHANGED relStatus
       ELSE /\ RelExit(1)
            /\ RelStep("tag", FALSE)
            /\ UNCHANGED relTag
  /\ UNCHANGED << encoderVars, shVars, batVars, relVersionFrom, relConfirmed,
                  relBinaries, relVerified, relPushed, relReleased >>

\* A push whose failure is ignored, as by `git push origin "$version" || true`.
RelPushIgnoreFailure ==
  /\ relPc = "push"
  /\ \E pushOk \in BOOLEAN :
       /\ relPushed' = pushOk
       /\ relPc' = "release"
       /\ RelStep("push", pushOk)
  /\ UNCHANGED << encoderVars, shVars, batVars, relVersionFrom, relStatus,
                  relConfirmed, relBinaries, relVerified, relTag, relReleased >>

\* part_003:345, 273: git push origin "$version"
RelPush ==
  /\ relPc = "push"
  /\ \E pushOk \in BOOLEAN :
       IF pushOk
       THEN /\ relPushed' = TRUE
            /\ relPc' = "release"
            /\ RelStep("push", TRUE)
            /\ UNCHANGED relStatus
       ELSE /\ RelExit(1)
            /\ RelStep("push", FALSE)
            /\ UNCHANGED relPushed
  /\ UNCHANGED << encoderVars, shVars, batVars, relVersionFrom, relConfirmed,
                  relBinaries, relVerified, relTag, relReleased >>

\* part_003:276-283: gh release create
RelCreateRelease ==
  /\ relPc = "release"
  /\ \E releaseOk \in BOOLEAN :
       IF releaseOk
       THEN /\ relReleased' = TRUE
            /\ relPc' = "finish"
            /\ RelStep("release", TRUE)
            /\ UNCHANGED relStatus
       ELSE /\ RelExit(1)
            /\ RelStep("release", FALSE)
            /\ UNCHANGED relReleased
  /\ UNCHANGED << encoderVars, shVars, batVars, relVersionFrom, relConfirmed,
                  relBinaries, relVerified, relTag, relPushed >>

\* part_003:347-360: the Go proxy is refreshed or not, the script ends.
RelFinish ==
  /\ relPc = "finish"
  /\ RelExit(0)
  /\ UNCHANGED << encoderVars, shVars, batVars, relVersionFrom, relConfirmed,
                  relBinaries, relVerified, relTag, relPushed, relReleased,
                  relLog >>

\* The environment of one run of the release script: the version is given
\* as the argument or asked for, the build directory holds nothing or the
\* binaries of an earlier build.
RelInit ==
  /\ relVersionFrom \in {"argument", "prompt"}
  /\ relPc = "idle"
  /\ relStatus = -1
  /\ relConfirmed = FALSE
  /\ relBinaries \in {{}, expected_binaries}
  /\ relVerified = FALSE
  /\ relTag = FALSE
  /\ relPushed = FALSE
  /\ relReleased = FALSE
  /\ relLog = << >>

InitRelease ==
  /\ target = "release.sh"
  /\ EncodersIdle
  /\ ShIdle
  /\ RelInit
  /\ BatIdle

NextRelease ==
  \/ RelCall
  \/ RelCheckPrerequisites
  \/ RelGetVersion
  \/ RelConfirm
  \/ RelBuildBinaries
  \/ RelCreateTag
  \/ RelPush
  \/ RelCreateRelease
  \/ RelFinish

SpecRelease == InitRelease /\ [][NextRelease]_vars

\* ----------------------------------------------------- scripts/uninstall.bat

\* A path is the sequence of the words its text has between spaces.
\* uninstall.bat:19, with %ProgramFiles% = C:\Program Files
ProgramFilesBinary == << "C:\\Program", "Files\\svg2icon\\svg2icon.exe" >>

\* uninstall.bat:24, with %LOCALAPPDATA% = C:\Users\me\AppData\Local
LocalAppDataBinary == << "C:\\Users\\me\\AppData\\Local\\svg2icon\\svg2icon.exe" >>

\* uninstall.bat:29: a binary in another directory of PATH
OtherPathBinary == << "C:\\Tools\\svg2icon.exe" >>

\* The places of the binary uninstall.bat looks at.
BatBinaries == { ProgramFilesBinary, LocalAppDataBinary, OtherPathBinary }

\* Other files: one named C:\Program, and one at Files\svg2icon\svg2icon.exe
\* below the current directory.
BatOtherFiles == { << "C:\\Program" >>, << "Files\\svg2icon\\svg2icon.exe" >> }

\* uninstall.bat:29-31: what `where svg2icon.exe` prints.
Where(files, inPath) == IF inPath \in files THEN inPath ELSE << >>

\* uninstall.bat:19-38: FOUND_PATHS after the search
BatFoundPaths(files, inPath) ==
  LET pf == IF ProgramFilesBinary \in files THEN << ProgramFilesBinary >> ELSE << >>
      la == IF LocalAppDataBinary \in files THEN << LocalAppDataBinary >> ELSE << >>
      found == pf \o la
      loc == Where(files, inPath)
  IN  IF loc # << >> /\ \A i \in 1..Len(found) : found[i] # loc
      THEN Append(found, loc)
      ELSE found

\* uninstall.bat:50, 69: the items of `for %%i in (!FOUND_PATHS!)`. The
\* set of a FOR is cut at every ";" and at every space alike, so each word
\* of each path is an item.
RECURSIVE ForItems(_)
ForItems(paths) ==
  IF paths = << >> THEN << >>
  ELSE [ i \in 1..Len(Head(paths)) |-> << Head(paths)[i] >> ] \o ForItems(Tail(paths))

\* exit /b with this status after these messages
BatExit(status, msgs) ==
  /\ batOut' = batOut \o msgs
  /\ batStatus' = status
  /\ batPc' = "exited"

\* uninstall.bat:6-16
BatCall ==
  /\ target = "uninstall.bat"
  /\ batPc = "idle"
  /\ batPc' = "find"
  /\ batOut' = Append(batOut, << "svg2icon Uninstallation Script" >>)
  /\ UNCHANGED << encoderVars, shVars, relVars, batFiles, batDirs,
                  batUserPath, batWhere, FOUND_PATHS, batI, REMOVED_COUNT,
                  batStatus, batDel >>

\* uninstall.bat:19-55
BatFind ==
  /\ batPc = "find"
  /\ FOUND_PATHS' = BatFoundPaths(batFiles, batWhere)
  /\ IF FOUND_PATHS' = << >>
     THEN BatExit(0, << << "svg2icon is not installed or not found in common locations" >> >>)
     ELSE /\ batPc' = "confirm"
          /\ batOut' = batOut \o << << "Found svg2icon installations:" >> >>
                              \o ForItems(FOUND_PATHS')
          /\ UNCHANGED batStatus
  /\ UNCHANGED << encoderVars, shVars, relVars, batFiles, batDirs,
                  batUserPath, batWhere, batI, REMOVED_COUNT, batDel >>

\* uninstall.bat:59
BatAnswers == { "y", "Y", "n", "" }

\* uninstall.bat:58-66
BatConfirm ==
  /\ batPc = "confirm"
  /\ \E CONFIRM \in BatAnswers :
       IF CONFIRM \in {"y", "Y"}
       THEN /\ batPc' = IF ForItems(FOUND_PATHS) = << >> THEN "report" ELSE "remove"
            /\ batI' = 1
            /\ UNCHANGED << batOut, batStatus >>
       ELSE /\ BatExit(0, << << "Uninstallation cancelled" >> >>)
            /\ UNCHANGED batI
  /\ UNCHANGED << encoderVars, shVars, relVars, batFiles, batDirs,
                  batUserPath, batWhere, FOUND_PATHS, REMOVED_COUNT, batDel >>

\* uninstall.bat:69-73 for one item, with :remove_binary (99-117) and
\* :cleanup_directory (119-124). del removes the file of that name unless
\* it is in use or protected; its errorlevel is either value.
BatRemoveBinary ==
  /\ batPc = "remove"
  /\ LET BINARY_PATH == ForItems(FOUND_PATHS)[batI]
     IN  /\ batDel' = Append(batDel, BINARY_PATH)
         /\ \E removable \in BOOLEAN, errorlevel \in {0, 1} :
              /\ batFiles' = IF removable THEN batFiles \ {BINARY_PATH} ELSE batFiles
              /\ IF errorlevel = 0
                 THEN /\ REMOVED_COUNT' = REMOVED_COUNT + 1
                      /\ batOut' = batOut \o << << "SUCCESS: Successfully removed:" >>,
                                                BINARY_PATH,
                                                << "Preserving installation directory" >> >>
                 ELSE /\ batOut' = batOut \o << << "ERROR: Failed to remove:" >>, BINARY_PATH >>
                      /\ UNCHANGED REMOVED_COUNT
  /\ batI' = batI + 1
  /\ batPc' = IF batI' > Len(ForItems(FOUND_PATHS)) THEN "report" ELSE "remove"
  /\ UNCHANGED << encoderVars, shVars, relVars, batDirs, batUserPath,
                  batWhere, FOUND_PATHS, batStatus >>

\* uninstall.bat:77-97 with :clean_path_entries (126-146)
BatReport ==
  /\ batPc = "report"
  /\ BatExit(0, << << "Preserving PATH entries..." >>,
                   IF Where(batFiles, batWhere) # << >>
                   THEN << "WARNING: svg2icon is still found in PATH" >>
                   ELSE << "SUCCESS: svg2icon binary successfully removed" >>,
                   IF REMOVED_COUNT > 0
                   THEN << "svg2icon uninstallation completed!" >>
                   ELSE << "No installations were removed" >> >>)
  /\ UNCHANGED << encoderVars, shVars, relVars, batFiles, batDirs,
                  batUserPath, batWhere, FOUND_PATHS, batI, REMOVED_COUNT,
                  batDel >>

\* The environment of one run of uninstall.bat: binaries at some of the
\* places, one of them perhaps found through PATH, other files or not.
BatInit ==
  /\ batFiles \in SUBSET (BatBinaries \cup BatOtherFiles)
  /\ batDirs = { << "C:\\Program", "Files\\svg2icon" >>,
                 << "C:\\Users\\me\\AppData\\Local\\svg2icon" >>, << "C:\\Tools" >> }
  /\ batUserPath \in { << >>, << << "C:\\Users\\me\\AppData\\Local\\svg2icon" >> >> }
  /\ batWhere \in {<< >>} \cup (BatBinaries \cap batFiles)
  /\ batPc = "idle"
  /\ FOUND_PATHS = << >>
  /\ batI = 1
  /\ REMOVED_COUNT = 0
  /\ batStatus = -1
  /\ batOut = << >>
  /\ batDel = << >>

NextUninstallBat ==
  \/ BatCall
  \/ BatFind
  \/ BatConfirm
  \/ BatRemoveBinary
  \/ BatReport

\* One run of one of the two uninstall scripts.
InitUninstallers ==
  /\ EncodersIdle
  /\ RelIdle
  /\ \/ target = "uninstall.sh" /\ ShInit /\ BatIdle
     \/ target = "uninstall.bat" /\ ShIdle /\ BatInit

NextUninstallers ==
  \/ NextUninstall
  \/ NextUninstallBat

SpecUninstallers == InitUninstallers /\ [][NextUninstallers]_vars

\* ------------------------------------------------------------------ claims

\* CreateIco has computed its directory (ico.go:80 is passed).
IcoEntriesBuilt ==
  \/ icoPc \in {"serialize", "open", "write"}
  \/ icoPc = "returned" /\ icoFailure = NoFailure

\* CreateIco has serialized its buffer (ico.go:105 is passed).
IcoBufferBuilt ==
  \/ icoPc \in {"open", "write"}
  \/ icoPc = "returned" /\ icoFailure = NoFailure

\* CreateIcns has computed its total size (icns.go:83 is passed).
IcnsTotalBuilt ==
  \/ icnsPc \in {"serialize", "open", "write"}
  \/ icnsPc = "returned" /\ icnsFailure = NoFailure

\* CreateIcns has serialized its buffer (icns.go:103 is passed).
IcnsBufferBuilt ==
  \/ icnsPc \in {"open", "write"}
  \/ icnsPc = "returned" /\ icnsFailure = NoFailure

\* C1: once CreateIco has built its directory, the ImageOffset of the n-th
\* entry is 6 + 16*count + the sum of the payload lengths of the entries
\* before it, for every n and every tuple of payloads.
C1_IcoOffsets ==
  IcoEntriesBuilt =>
    /\ Len(icoEntries) = Len(IconSizes)
    /\ \A n \in 1..Len(IconSizes) :
         icoEntries[n].ImageOffset =
           6 + 16 * Len(IconSizes) + SumLen(imageData, n - 1)

\* C1 witness: a directory built from payloads of different lengths.
C1_Witness ==
  /\ IcoEntriesBuilt
  /\ Len(imageData[1]) = 2
  /\ Len(imageData[2]) = 1
  /\ icoEntries[1].ImageOffset = 118
  /\ icoEntries[3].ImageOffset = 121

\* C2: the directory entry of size 256 has Width = Height = 0, every other
\* size s has Width = Height = s, and no other size is encoded as 0.
C2_IcoDimensions ==
  IcoEntriesBuilt =>
    \A k \in 1..Len(IconSizes) :
      IF IconSizes[k] = 256
      THEN icoEntries[k].Width = 0 /\ icoEntries[k].Height = 0
      ELSE /\ icoEntries[k].Width = IconSizes[k]
           /\ icoEntries[k].Height = IconSizes[k]
           /\ icoEntries[k].Width # 0

\* C2 witness: a built directory whose last entry, size 256, is encoded 0x0
\* and whose entry for 128 is encoded 128x128.
C2_Witness ==
  /\ IcoEntriesBuilt
  /\ IconSizes[7] = 256
  /\ icoEntries[7].Width = 0
  /\ icoEntries[7].Height = 0
  /\ icoEntries[6].Width = 128

\* A big-endian uint32 read from four bytes.
DecodeBE32(b) == ((b[1] * 256 + b[2]) * 256 + b[3]) * 256 + b[4]

\* A little-endian uint32 read from four bytes.
DecodeLE32(b) == ((b[4] * 256 + b[3]) * 256 + b[2]) * 256 + b[1]

\* The len bytes of buf after the first off bytes (-1 past the end).
Slice(buf, off, len) ==
  IF off + len <= Len(buf)
  THEN SubSeq(buf, off + 1, off + len)
  ELSE [j \in 1..len |-> IF off + j <= Len(buf) THEN buf[off + j] ELSE -1]

\* The sum of the Length fields of the first n entries.
RECURSIVE SumLength(_, _)
SumLength(entries, n) ==
  IF n = 0 THEN 0 ELSE SumLength(entries, n - 1) + entries[n].Length

\* C3: every ICNS entry's Length is its payload length plus 8, and the total
\* size written in the header is 8 plus the sum of the entries' Lengths.
C3_IcnsLengths ==
  /\ \A k \in 1..Len(icnsEntries) :
       icnsEntries[k].Length = Len(icnsEntries[k].Data) + 8
  /\ IcnsTotalBuilt =>
       /\ Len(icnsEntries) = Len(StandardIconTypes)
       /\ totalSize = 8 + SumLength(icnsEntries, Len(icnsEntries))
  /\ IcnsBufferBuilt =>
       DecodeBE32(Slice(icnsBuffer, 4, 4)) =
         8 + SumLength(icnsEntries, Len(icnsEntries))

\* C3 witness: a serialized ICNS buffer whose entries have different lengths.
C3_Witness ==
  /\ IcnsBufferBuilt
  /\ icnsEntries[1].Length = 9
  /\ icnsEntries[2].Length = 10
  /\ totalSize > 8 + 11 * 9

\* C4: once the rasterizer has failed for a size of the ICO list, at any
\* index, CreateIco has returned an error, has built no buffer and has not
\* touched the output path: the file there is what it was before the call.
C4_IcoFailureWritesNothing ==
  icoFailure # NoFailure =>
    /\ icoPc = "returned"
    /\ icoRet # NoError
    /\ icoWrites = 0
    /\ icoFile = icoFileBefore
    /\ icoBuffer = << >>

\* C4 witness: the third size fails after the first two were rendered.
C4_Witness ==
  /\ icoFailure.index = 3
  /\ Len(imageData) = 2
  /\ icoPc = "returned"
  /\ icoRet \in RasterErrors

\* C5: once the rasterizer has failed for an entry of the ICNS table, however
\* many entries were rendered before, CreateIcns has returned an error, has
\* built no buffer and has not touched the output path.
C5_IcnsFailureWritesNothing ==
  icnsFailure # NoFailure =>
    /\ icnsPc = "returned"
    /\ icnsRet # NoError
    /\ icnsWrites = 0
    /\ icnsFile = icnsFileBefore
    /\ icnsBuffer = << >>

\* C5 witness: the eighth entry (ic11, 32 pixels) fails although the second
\* (icp5, 32 pixels) was rendered.
C5_Witness ==
  /\ icnsFailure.index = 8
  /\ Len(icnsEntries) = 7
  /\ icnsPc = "returned"
  /\ icnsRet \in RasterErrors

\* C6 (as claimed): when rasterization has failed, the error the encoder
\* returned names the size that failed.
C6_ErrorNamesSize ==
  /\ icoFailure # NoFailure => icoRet.size = icoFailure.size
  /\ icnsFailure # NoFailure => icnsRet.size = icnsFailure.size

\* The complete container of the current call, as a file.
Complete(buffer) == Written(buffer, Len(buffer))

\* C7 (as claimed): in every state the file at outputPath is what it was
\* before the call or the complete container, never a shorter prefix.
C7_AtomicPersist ==
  /\ \/ icoFile = icoFileBefore
     \/ IcoBufferBuilt /\ icoFile = Complete(icoBuffer)
  /\ \/ icnsFile = icnsFileBefore
     \/ IcnsBufferBuilt /\ icnsFile = Complete(icnsBuffer)

\* A conformant ICO reader: the count from the header, then for each 16-byte
\* entry the size (dimension byte 0 read as 256) and the payload sliced at
\* [ImageOffset, ImageOffset + BytesInRes).
ReadIco(buf) ==
  LET count == buf[5] + 256 * buf[6]
  IN [k \in 1..count |->
        LET e   == Slice(buf, 6 + 16 * (k - 1), 16)
            len == DecodeLE32(Slice(e, 8, 4))
            off == DecodeLE32(Slice(e, 12, 4))
        IN [ width  |-> IF e[1] = 0 THEN 256 ELSE e[1],
             height |-> IF e[2] = 0 THEN 256 ELSE e[2],
             data   |-> Slice(buf, off, len) ]]

\* C8: a conformant reader recovers from the buffer CreateIco built exactly
\* len(IconSizes) images, the sizes of IconSizes in order, and the payloads
\* the rasterizer returned, byte for byte.
C8_IcoRoundTrip ==
  IcoBufferBuilt =>
    ReadIco(icoBuffer) =
      [k \in 1..Len(IconSizes) |->
         [ width |-> IconSizes[k], height |-> IconSizes[k], data |-> imageData[k] ]]

\* C8 witness: a buffer built from payloads of different lengths is read
\* back, 7 images, the first of 2 bytes and the last, 256 pixels, of 1.
C8_Witness ==
  /\ IcoBufferBuilt
  /\ Len(ReadIco(icoBuffer)) = 7
  /\ Len(ReadIco(icoBuffer)[1].data) = 2
  /\ ReadIco(icoBuffer)[7].width = 256
  /\ Len(imageData[7]) = 1
  /\ ReadIco(icoBuffer)[7].data = imageData[7]

\* A sequential ICNS reader: from position pos, a 4-byte type code, a 4-byte
\* big-endian length L and L - 8 bytes of payload, until total is consumed.
\* (An entry shorter than its own header ends the scan.)
RECURSIVE ReadIcnsFrom(_, _, _)
ReadIcnsFrom(buf, pos, total) ==
  IF pos >= total THEN << >>
  ELSE LET L == DecodeBE32(Slice(buf, pos + 4, 4))
       IN IF L < 8 THEN << [type |-> Slice(buf, pos, 4), data |-> << >>, short |-> TRUE] >>
          ELSE << [type |-> Slice(buf, pos, 4), data |-> Slice(buf, pos + 8, L - 8),
                   short |-> FALSE] >>
               \o ReadIcnsFrom(buf, pos + L, total)

ReadIcns(buf) == ReadIcnsFrom(buf, 8, DecodeBE32(Slice(buf, 4, 4)))

\* C9: a sequential reader recovers from the buffer CreateIcns built exactly
\* 11 entries, the type codes of StandardIconTypes in table order, and the
\* payloads the rasterizer returned, byte for byte.
C9_IcnsRoundTrip ==
  IcnsBufferBuilt =>
    LET read == ReadIcns(icnsBuffer)
    IN /\ Len(read) = 11
       /\ read = [k \in 1..Len(StandardIconTypes) |->
                   [ type  |-> AsciiBytes(StandardIconTypes[k].OSType),
                     data  |-> icnsEntries[k].Data,
                     short |-> FALSE ]]

\* C9 witness: a buffer whose two 32-pixel entries (icp5 and ic11) carry
\* payloads of different lengths is read back.
C9_Witness ==
  /\ IcnsBufferBuilt
  /\ Len(ReadIcns(icnsBuffer)) = 11
  /\ Len(ReadIcns(icnsBuffer)[2].data) = 1
  /\ Len(ReadIcns(icnsBuffer)[8].data) = 2
  /\ ReadIcns(icnsBuffer)[8].type = <<105, 99, 49, 49>>

\* C10: with a deterministic rasterizer, every call of the same encoder on
\* the same source builds the same buffer, byte for byte.
C10_Deterministic ==
  \A i \in 1..Len(built) : \A j \in 1..Len(built) : built[i] = built[j]

\* C10 witness: CreateIcns has built its buffer in two successive calls.
C10_Witness ==
  /\ target = "icns"
  /\ runs = 2
  /\ Len(built) = 2
  /\ IcnsBufferBuilt
  /\ icnsBuffer = built[2]

\* CreateIco has left its raster loop with every payload (ico.go:51 is passed).
IcoRasterDone ==
  \/ icoPc \in {"entries", "serialize", "open", "write"}
  \/ icoPc = "returned" /\ icoFailure = NoFailure

\* The payloads the rasterizer returned to the requests reqs, in order.
RequestData(reqs) == [k \in 1..Len(reqs) |-> reqs[k].data]

\* The first byte of each 16-byte directory entry of an ICO buffer.
DirectoryWidths(buf) == [k \in 1..7 |-> Slice(buf, 6 + 16 * (k - 1), 1)[1]]

\* C11: the buffer a successful CreateIco built is the 6 bytes 00 00 01 00
\* 07 00, then 7 entries of 16 bytes in the order 16, 24, 32, 48, 64, 128,
\* 256 (encoded 0), then the 7 payloads in that order with nothing between
\* or after them: 6 + 112 + the sum of the payload lengths bytes in all.
C11_IcoLayout ==
  IcoBufferBuilt =>
    /\ Len(icoRequests) = 7
    /\ Len(icoBuffer) = 6 + 112 + SumLen(RequestData(icoRequests), 7)
    /\ Slice(icoBuffer, 0, 6) = <<0, 0, 1, 0, 7, 0>>
    /\ DirectoryWidths(icoBuffer) = <<16, 24, 32, 48, 64, 128, 0>>
    /\ \A k \in 1..7 :
         /\ Slice(icoBuffer, 6 + 16 * (k - 1), 16) = EntryBytes(icoEntries[k])
         /\ Slice(icoBuffer, 118 + SumLen(RequestData(icoRequests), k - 1),
                  Len(icoRequests[k].data)) = icoRequests[k].data

\* C11 witness: a written buffer of 6 + 112 + 11 bytes, the payloads of
\* different lengths, the last one its last byte.
C11_Witness ==
  /\ icoPc = "returned"
  /\ icoRet = NoError
  /\ Len(icoBuffer) = 129
  /\ Len(icoRequests[1].data) = 3
  /\ Len(icoRequests[7].data) = 2
  /\ icoBuffer[129] = icoRequests[7].data[2]

\* The position in the ICNS buffer of the entry for the k-th request: after
\* the 8-byte header and, for each request before it, 8 bytes and a payload.
IcnsEntryPos(reqs, k) == 8 + 8 * (k - 1) + SumLen(RequestData(reqs), k - 1)

\* C12: the buffer a successful CreateIcns built is the 4 ASCII bytes
\* "icns", the total size as 4 big-endian bytes, then for each of the 11
\* table entries in table order its 4-byte type code, its length as 4
\* big-endian bytes and its payload, with no padding between entries and
\* nothing after the last payload.
C12_IcnsLayout ==
  IcnsBufferBuilt =>
    /\ Len(icnsRequests) = 11
    /\ Slice(icnsBuffer, 0, 4) = <<105, 99, 110, 115>>
    /\ DecodeBE32(Slice(icnsBuffer, 4, 4)) = totalSize
    /\ \A k \in 1..11 :
         LET pos == IcnsEntryPos(icnsRequests, k)
             payload == icnsRequests[k].data
         IN /\ Slice(icnsBuffer, pos, 4) = AsciiBytes(StandardIconTypes[k].OSType)
            /\ DecodeBE32(Slice(icnsBuffer, pos + 4, 4)) = Len(payload) + 8
            /\ Slice(icnsBuffer, pos + 8, Len(payload)) = payload
    /\ Len(icnsBuffer) = IcnsEntryPos(icnsRequests, 12)

\* C12 witness: a written buffer whose first payload has 3 bytes, so that
\* the second entry, icp5, starts at byte 19 and not at a multiple of 4.
C12_Witness ==
  /\ icnsPc = "returned"
  /\ icnsRet = NoError
  /\ Len(icnsRequests[1].data) = 3
  /\ Slice(icnsBuffer, 19, 4) = <<105, 99, 112, 53>>
  /\ Len(icnsBuffer) > 8 + 11 * 9

\* CreateIcns has left its raster loop with every payload (icns.go:76 is
\* passed).
IcnsRasterDone ==
  \/ icnsPc \in {"total", "serialize", "open", "write"}
  \/ icnsPc = "returned" /\ icnsFailure = NoFailure

\* The pixel sizes of the requests reqs, in the order they were made.
RequestSizes(reqs) == [k \in 1..Len(reqs) |-> reqs[k].size]

\* The pixel sizes of StandardIconTypes, in table order.
TableSizes == [k \in 1..Len(StandardIconTypes) |-> StandardIconTypes[k].Size]

\* C13: within one call the rasterizer is requested once per table element,
\* in table order: the requests made so far are for the first elements of
\* the table, a CreateIco that got every payload made exactly the 7
\* requests 16, 24, 32, 48, 64, 128, 256, a CreateIcns that got every
\* payload made exactly 11 requests, one per entry of its table (32, 64,
\* 256 and 512 twice each), and every entry carries the payload its own
\* request returned.
C13_OneRequestPerElement ==
  /\ RequestSizes(icoRequests) = SubSeq(IconSizes, 1, Len(icoRequests))
  /\ RequestSizes(icnsRequests) = SubSeq(TableSizes, 1, Len(icnsRequests))
  /\ IcoRasterDone =>
       /\ RequestSizes(icoRequests) = <<16, 24, 32, 48, 64, 128, 256>>
       /\ imageData = RequestData(icoRequests)
  /\ IcnsRasterDone =>
       /\ RequestSizes(icnsRequests) =
            <<16, 32, 64, 128, 256, 512, 1024, 32, 64, 256, 512>>
       /\ EntryData(icnsEntries) = RequestData(icnsRequests)

\* C13 witness: CreateIcns has written a container whose two 32-pixel
\* entries, icp5 and ic11, come from two requests that returned different
\* payloads.
C13_Witness ==
  /\ icnsPc = "returned"
  /\ icnsRet = NoError
  /\ icnsRequests[2].size = 32
  /\ icnsRequests[8].size = 32
  /\ icnsRequests[2].data # icnsRequests[8].data
  /\ icnsEntries[2].Data = icnsRequests[2].data
  /\ icnsEntries[8].Data = icnsRequests[8].data

\* The requests reqs ended with the failure f: the request of index f.index
\* failed with f.err, every request before it succeeded, none came after.
FailedLast(reqs, f) ==
  /\ Len(reqs) = f.index
  /\ reqs[f.index].err = f.err
  /\ f.err # NoError
  /\ \A j \in 1..(f.index - 1) : reqs[j].err = NoError

\* C14: the error an encode call returns is that of the lowest-index table
\* element whose request failed, and after that failure the call requests
\* nothing more: the failed request is the last of the call, every request
\* before it succeeded, the call has returned, and it returned that error.
C14_FirstFailureReturned ==
  /\ icoFailure # NoFailure =>
       /\ FailedLast(icoRequests, icoFailure)
       /\ icoPc = "returned"
       /\ icoRet = icoFailure.err
  /\ icnsFailure # NoFailure =>
       /\ FailedLast(icnsRequests, icnsFailure)
       /\ icnsPc = "returned"
       /\ icnsRet = icnsFailure.err
  /\ \A k \in 1..Len(icoRequests) :
       icoRequests[k].err # NoError => icoFailure.index = k
  /\ \A k \in 1..Len(icnsRequests) :
       icnsRequests[k].err # NoError => icnsFailure.index = k

\* C14 witness: CreateIcns returned the parse error of its 6th request (512
\* pixels) after five payloads; the 11th element, 512 pixels too, was never
\* requested.
C14_Witness ==
  /\ icnsPc = "returned"
  /\ icnsFailure.index = 6
  /\ icnsFailure.size = 512
  /\ Len(icnsRequests) = 6
  /\ icnsRet = [cause |-> "parse", size |-> 0]
  /\ \A j \in 1..5 : icnsRequests[j].err = NoError

\* Every request of reqs succeeded.
AllSucceeded(reqs) == \A k \in 1..Len(reqs) : reqs[k].err = NoError

\* C15: no failure is swallowed.  A call that has returned returned nil
\* only if each of its requests succeeded, one per table element, and
\* os.WriteFile reported no error, and then the file is the complete
\* buffer; after a failed request it returned that request's error, after
\* a failed os.WriteFile the error os.WriteFile reported.
C15_NoFailureSwallowed ==
  /\ icoPc = "returned" =>
       /\ icoRet = NoError <=>
            /\ Len(icoRequests) = Len(IconSizes)
            /\ AllSucceeded(icoRequests)
            /\ icoWriteErr = NoError
       /\ icoRet = NoError => icoFile = Complete(icoBuffer)
       /\ icoFailure # NoFailure => icoRet = icoFailure.err
       /\ icoWriteErr # NoError => icoRet = icoWriteErr
  /\ icnsPc = "returned" =>
       /\ icnsRet = NoError <=>
            /\ Len(icnsRequests) = Len(StandardIconTypes)
            /\ AllSucceeded(icnsRequests)
            /\ icnsWriteErr = NoError
       /\ icnsRet = NoError => icnsFile = Complete(icnsBuffer)
       /\ icnsFailure # NoFailure => icnsRet = icnsFailure.err
       /\ icnsWriteErr # NoError => icnsRet = icnsWriteErr

\* C15 witness: every request of CreateIco succeeded, the write broke off
\* after one byte, and CreateIco returned the write error.
C15_Witness ==
  /\ icoPc = "returned"
  /\ Len(icoRequests) = 7
  /\ AllSucceeded(icoRequests)
  /\ icoFile.data = << 0 >>
  /\ icoWriteErr = WriteError
  /\ icoRet = WriteError

\* C16: with an empty size list CreateIco does not fail for want of sizes:
\* it never enters the raster loop and makes no request, its directory stays
\* empty, the buffer it builds is the 6 header bytes 00 00 01 00 00 00
\* (reserved 0, type 1, count 0) and nothing else, and the only error it can
\* return is the one os.WriteFile reports.
C16_EmptySizeList ==
  Len(iconSizes) = 0 =>
    /\ icoPc # "raster"
    /\ icoRequests = << >>
    /\ icoFailure = NoFailure
    /\ imageData = << >>
    /\ icoEntries = << >>
    /\ IcoBufferBuilt => icoBuffer = <<0, 0, 1, 0, 0, 0>>
    /\ icoPc = "returned" =>
         /\ icoRet = icoWriteErr
         /\ icoRet = NoError => icoFile = [exists |-> TRUE, data |-> <<0, 0, 1, 0, 0, 0>>]

\* C16 witness: CreateIco has returned nil with an empty list and the file
\* holds the 6 header bytes.
C16_Witness ==
  /\ iconSizes = << >>
  /\ icoPc = "returned"
  /\ icoRet = NoError
  /\ icoRequests = << >>
  /\ icoFile.data = <<0, 0, 1, 0, 0, 0>>

\* The index of the first element of sizes for which the source fails to
\* render, every element before it rendering (a set of at most one index).
FirstFailing(sizes) ==
  { k \in 1..Len(sizes) :
      /\ \A j \in 1..k : sizes[j] \in DOMAIN oracle
      /\ oracle[sizes[k]].err # NoError
      /\ \A j \in 1..(k - 1) : oracle[sizes[j]].err = NoError }

\* The payloads the source renders to for the elements of sizes.
Rendered(sizes) == [k \in 1..Len(sizes) |-> oracle[sizes[k]].data]

\* The buffer CreateIco builds from the source when it is the only call.
AloneIcoBuffer ==
  LET data == Rendered(IconSizes)
  IN IcoBytes(EntriesLoop(1, data, << >>, FirstOffset).entries, data)

\* The buffer CreateIcns builds from the source when it is the only call.
AloneIcnsBuffer ==
  LET data == Rendered(TableSizes)
      entries == [k \in 1..Len(StandardIconTypes) |->
                    MakeIconEntry(StandardIconTypes[k], data[k])]
  IN IcnsBytes(TotalLoop(1, entries, U32(8)), entries)

\* The files os.WriteFile can leave of buffer over the file before, given
\* the error it reported.
FilesAfterWrite(before, buffer, werr) ==
  IF werr = NoError THEN { Complete(buffer) }
  ELSE IF werr = OpenError THEN { before }
  ELSE { Written(buffer, n) : n \in 0..(Len(buffer) - 1) }

\* What a returned call shows when it ran alone on the source: the error of
\* the first failing element, no buffer and the file untouched; or, all
\* elements rendering, the buffer built from them, the result of
\* os.WriteFile and the file it left.
AsAlone(sizes, ret, buffer, file, before, werr, alone) ==
  IF FirstFailing(sizes) # {}
  THEN /\ \E k \in FirstFailing(sizes) : ret = oracle[sizes[k]].err
       /\ buffer = << >>
       /\ file = before
  ELSE /\ \A k \in 1..Len(sizes) : sizes[k] \in DOMAIN oracle
       /\ buffer = alone
       /\ ret = werr
       /\ file \in FilesAfterWrite(before, alone, werr)

\* C17: CreateIco and CreateIcns run at the same time on one source do not
\* interfere.  Under every interleaving each call, once returned, has the
\* result, the buffer and the output file it has when run alone (they
\* depend on the source and on its own os.WriteFile only), and until a call
\* opens its own file that file is what it was, whatever the other call
\* did or however it failed.
C17_NoInterference ==
  /\ icoPc = "returned" =>
       AsAlone(IconSizes, icoRet, icoBuffer, icoFile, OldFile, icoWriteErr,
               AloneIcoBuffer)
  /\ icnsPc = "returned" =>
       AsAlone(TableSizes, icnsRet, icnsBuffer, icnsFile, OldFile, icnsWriteErr,
               AloneIcnsBuffer)
  /\ icoPc \in {"idle", "raster", "entries", "serialize", "open"} => icoFile = OldFile
  /\ icnsPc \in {"idle", "raster", "total", "serialize", "open"} => icnsFile = OldFile

\* C17 witness: CreateIcns failed at its 6th element (512 pixels) and left
\* its file alone, while CreateIco, run at the same time, returned nil and
\* wrote its complete container.
C17_Witness ==
  /\ icnsPc = "returned"
  /\ icnsFailure.index = 6
  /\ icnsRet \in RasterErrors
  /\ icnsFile = OldFile
  /\ icoPc = "returned"
  /\ icoRet = NoError
  /\ Len(icoBuffer) > 118
  /\ icoFile = Complete(icoBuffer)

C19_EntryConstants ==
  IcoEntriesBuilt =>
    /\ Len(icoEntries) = 7
    /\ \A k \in 1..Len(icoEntries) :
         /\ icoEntries[k].ColorCount = 0
         /\ icoEntries[k].Reserved = 0
         /\ icoEntries[k].Planes = 1
         /\ icoEntries[k].BitCount = 32
         /\ icoEntries[k].BytesInRes = Len(icoRequests[k].data)

\* C19 witness: a directory whose entries for 16 and 256 pixels have
\* payloads of 1 and 4 bytes and the same constant fields.
C19_Witness ==
  /\ IcoEntriesBuilt
  /\ icoEntries[1].BytesInRes = 1
  /\ icoEntries[7].BytesInRes = 4
  /\ icoEntries[1].Width = 16
  /\ icoEntries[7].Width = 0
  /\ icoEntries[1].BitCount = 32
  /\ icoEntries[7].BitCount = 32

\* The four bytes of x, least significant byte first.
LowFirst(x) ==
  << x % 256, (x \div 256) % 256, (x \div 65536) % 256, (x \div 16777216) % 256 >>

\* The four bytes of x, least significant byte last.
LowLast(x) ==
  << (x \div 16777216) % 256, (x \div 65536) % 256, (x \div 256) % 256, x % 256 >>

\* C20: the encoders use opposite byte orders.  In the buffer CreateIco
\* built the header words and every Planes, BitCount, BytesInRes and
\* ImageOffset have their least significant byte first, each 16-byte entry
\* being width(1) height(1) colorcount(1) reserved(1) planes(2) bitcount(2)
\* length(4) offset(4); in the buffer CreateIcns built the total size and
\* every entry length have their least significant byte last.
C20_ByteOrders ==
  /\ IcoBufferBuilt =>
       /\ Slice(icoBuffer, 0, 6) = <<0, 0, 1, 0, 7, 0>>
       /\ \A k \in 1..7 :
            LET e == Slice(icoBuffer, 6 + 16 * (k - 1), 16)
            IN /\ e[1] = IconSizes[k] % 256
               /\ e[2] = IconSizes[k] % 256
               /\ e[3] = 0
               /\ e[4] = 0
               /\ << e[5], e[6] >> = <<1, 0>>
               /\ << e[7], e[8] >> = <<32, 0>>
               /\ << e[9], e[10], e[11], e[12] >> = LowFirst(Len(icoRequests[k].data))
               /\ << e[13], e[14], e[15], e[16] >> =
                    LowFirst(118 + SumLen(RequestData(icoRequests), k - 1))
  /\ IcnsBufferBuilt =>
       /\ Slice(icnsBuffer, 4, 4) = LowLast(IcnsEntryPos(icnsRequests, 12))
       /\ \A k \in 1..11 :
            Slice(icnsBuffer, IcnsEntryPos(icnsRequests, k) + 4, 4) =
              LowLast(Len(icnsRequests[k].data) + 8)

\* C20 witness (ICO): the payloads for 16 and 24 pixels are long; the entry
\* for 32 pixels holds the length 1 as 01 00 00 00 and the offset 518 as
\* 06 02 00 00.
C20_Witness ==
  /\ IcoBufferBuilt
  /\ Len(icoRequests[1].data) = 200
  /\ Len(icoRequests[2].data) = 200
  /\ Slice(icoBuffer, 38, 16) = <<32, 32, 0, 0, 1, 0, 32, 0, 1, 0, 0, 0, 6, 2, 0, 0>>

\* The type codes of the entries, as stored.
EntryCodes(entries) == [k \in 1..Len(entries) |-> entries[k].OSType]

\* C21: the ICNS table has 11 elements, each of a positive size and with a
\* type code of 4 ASCII characters, the codes pairwise distinct (icp4 at 16
\* pixels and ic11 at 32 among them), and CreateIcns stores each code as it
\* stands in the 4-byte OSType field of its entry and in the buffer: 4
\* bytes, none of them a padding zero, a terminator or a length.
C21_TypeCodes ==
  /\ \A k \in 1..Len(icnsEntries) :
       /\ Len(icnsEntries[k].OSType) = 4
       /\ \A j \in 1..4 : icnsEntries[k].OSType[j] \in 33..126
       /\ icnsEntries[k].OSType = AsciiBytes(StandardIconTypes[k].OSType)
       /\ icnsRequests[k].size > 0
       /\ \A m \in 1..Len(icnsEntries) :
            m # k => icnsEntries[m].OSType # icnsEntries[k].OSType
  /\ IcnsRasterDone =>
       /\ Len(icnsEntries) = 11
       /\ icnsEntries[1].OSType = <<105, 99, 112, 52>>
       /\ icnsRequests[1].size = 16
       /\ icnsEntries[8].OSType = <<105, 99, 49, 49>>
       /\ icnsRequests[8].size = 32
  /\ IcnsBufferBuilt =>
       \A k \in 1..11 :
         Slice(icnsBuffer, IcnsEntryPos(icnsRequests, k), 4) = icnsEntries[k].OSType

\* C21 witness: a written container whose 8th entry, after payloads of
\* different lengths, starts with the bytes of "ic11".
C21_Witness ==
  /\ icnsPc = "returned"
  /\ icnsRet = NoError
  /\ Len(icnsRequests[2].data) = 2
  /\ Len(icnsRequests[7].data) = 3
  /\ EntryCodes(icnsEntries)[8] = <<105, 99, 49, 49>>
  /\ Slice(icnsBuffer, IcnsEntryPos(icnsRequests, 8), 4) = <<105, 99, 49, 49>>

\* C22: a successful encode call writes its output path once, the complete
\* container, after all its requests returned and its metadata was computed.
\* The path is changed by the one os.WriteFile of the call only, which opens
\* (truncates) it and writes the buffer: nothing changes it while the call
\* rasterizes, computes or serializes, and what changes it finds every
\* request of the call answered with a payload and the buffer built from
\* all of them.
C22_WrittenOnce ==
  /\ icoPc \in {"idle", "raster", "entries", "serialize", "open"} =>
       icoWrites = 0 /\ icoFile = icoFileBefore
  /\ icoWrites > 0 =>
       /\ Len(icoRequests) = Len(IconSizes)
       /\ AllSucceeded(icoRequests)
       /\ Len(icoEntries) = Len(IconSizes)
       /\ icoBuffer = IcoBytes(icoEntries, RequestData(icoRequests))
  /\ icoPc = "write" => icoWrites = 1 /\ icoFile = Truncated
  /\ (icoPc = "returned" /\ icoRet = NoError) =>
       icoWrites = 2 /\ icoFile = Complete(icoBuffer)
  /\ icoWrites <= 2
  /\ icnsPc \in {"idle", "raster", "total", "serialize", "open"} =>
       icnsWrites = 0 /\ icnsFile = icnsFileBefore
  /\ icnsWrites > 0 =>
       /\ Len(icnsRequests) = Len(StandardIconTypes)
       /\ AllSucceeded(icnsRequests)
       /\ EntryData(icnsEntries) = RequestData(icnsRequests)
       /\ totalSize = Len(icnsBuffer)
       /\ icnsBuffer = IcnsBytes(totalSize, icnsEntries)
  /\ icnsPc = "write" => icnsWrites = 1 /\ icnsFile = Truncated
  /\ (icnsPc = "returned" /\ icnsRet = NoError) =>
       icnsWrites = 2 /\ icnsFile = Complete(icnsBuffer)
  /\ icnsWrites <= 2

\* C22 witness: CreateIco returned nil over a file that existed; the file
\* was opened and written once and holds the container of 7 payloads.
C22_Witness ==
  /\ icoPc = "returned"
  /\ icoRet = NoError
  /\ icoFileBefore = OldFile
  /\ icoWrites = 2
  /\ Len(icoRequests) = 7
  /\ icoFile.data = icoBuffer
  /\ Len(icoBuffer) = 127

\* C23: the size tables are read-only.  Whatever calls of CreateIco and
\* CreateIcns were made, one after another, and however each ended, the
\* package variables IconSizes and StandardIconTypes hold the elements they
\* were declared with, in the declared order.
C23_TablesReadOnly ==
  /\ iconSizes = <<16, 24, 32, 48, 64, 128, 256>>
  /\ standardIconTypes = StandardIconTypes
  /\ Len(standardIconTypes) = 11
  /\ [k \in 1..11 |-> standardIconTypes[k].Size] =
       <<16, 32, 64, 128, 256, 512, 1024, 32, 64, 256, 512>>

\* C23 witness: a first call of CreateIco built its container and failed
\* writing it, leaving one byte; the second call has built its directory and
\* returned nil.
C23_Witness ==
  /\ runs = 2
  /\ Len(built) = 2
  /\ icoFileBefore = [exists |-> TRUE, data |-> << 0 >>]
  /\ icoPc = "returned"
  /\ icoRet = NoError
  /\ Len(icoEntries) = 7
  /\ icoEntries[7].Width = 0
  /\ iconSizes[7] = 256

\* uninstall.sh has printed msg.
Printed(msg) == \E k \in 1..Len(shOut) : shOut[k] = msg

\* uninstall.sh found binaries, was not told to stop and met no file it
\* could not remove.
ShRemovalUnhindered ==
  /\ Len(found_paths) > 0
  /\ \A k \in 1..Len(found_paths) : found_paths[k] # EmptyPath
  /\ ~ Printed("Uninstallation cancelled")
  /\ ~ Printed("Error: Cannot remove")
  /\ ~ Printed("Error: Failed to remove")

\* C24 (as claimed): under set -e, uninstall.sh removes every binary that
\* find_installed_binary found, not only the first, counts each removal in
\* removed_count and then reaches its final report: once it has ended, rm
\* was run for each found path, none of them is left, removed_count is their
\* number, "svg2icon uninstallation completed!" was printed and the status
\* is 0.
C24_RemovesAllAndReports ==
  (shPc = "exited" /\ ShRemovalUnhindered) =>
    /\ shRm = found_paths
    /\ \A k \in 1..Len(found_paths) : found_paths[k] \notin shFiles
    /\ removed_count = Len(found_paths)
    /\ Printed("svg2icon uninstallation completed!")
    /\ Printed("Removed installation(s)")
    /\ shStatus = 0

\* Nothing that find_installed_binary looks for exists, and nothing did: no
\* file was removed.
NoBinaryInstalled ==
  /\ FoundPaths(shFiles) = << >>
  /\ \A k \in 1..Len(shRm) : shRm[k] = EmptyPath

\* C25 (as claimed): when no svg2icon binary exists in any checked directory
\* or in PATH, uninstall.sh reports that svg2icon is not installed and exits
\* with status 0: it does not ask for confirmation, does not call
\* remove_binary and runs no rm.
C25_NotInstalled ==
  (NoBinaryInstalled /\ shPc # "idle") =>
    /\ shPc \in { "check", "exited" }
    /\ ~ shAsked
    /\ shRm = << >>
    /\ ~ Printed("Removing binary")
    /\ shPc = "exited" =>
         /\ Printed("svg2icon is not installed or not found in common locations")
         /\ shStatus = 0

\* The steps of the release, in the order of part_003:338-345.
ReleaseSteps == << "build", "tag", "push", "release" >>

\* The steps that ended well, as the log tells them.
StepDone(step) == \E i \in 1..Len(relLog) : relLog[i] = [step |-> step, ok |-> TRUE]

\* C26: in the release script the tag is created and the release published
\* only after the user confirmed with y or Y and all six binaries were
\* found; the steps run in the order build, tag, push, release; a failure
\* or a refusal at a step prevents every later step.
C26_ReleaseOrder ==
  /\ relTag \/ relPushed \/ relReleased
       => relConfirmed /\ relVerified /\ expected_binaries \subseteq relBinaries
  /\ relLog # << >> => relConfirmed
  /\ Len(relLog) <= Len(ReleaseSteps)
  /\ \A i \in 1..Len(relLog) :
       /\ relLog[i].step = ReleaseSteps[i]
       /\ i < Len(relLog) => relLog[i].ok
  /\ relVerified <=> StepDone("build")
  /\ relTag <=> StepDone("tag")
  /\ relPushed <=> StepDone("push")
  /\ relReleased <=> StepDone("release")
  /\ relPc = "exited" /\ relLog # << >> /\ ~relLog[Len(relLog)].ok => relStatus = 1

\* The release is published; all four steps ran.
C26_Witness ==
  /\ relPc = "exited"
  /\ relStatus = 0
  /\ relReleased
  /\ Len(relLog) = 4

\* uninstall.sh changes no profile, no directory and no PATH, and deletes
\* only binaries it found.
ShPreserves ==
  /\ shProfiles' = shProfiles
  /\ shDirs' = shDirs
  /\ shPathDir' = shPathDir
  /\ shFiles' \subseteq shFiles
  /\ \A f \in shFiles \ shFiles' :
       /\ f.name = BINARY_NAME
       /\ \E i \in 1..Len(found_paths) : found_paths[i] = f

\* uninstall.bat changes no directory and no PATH, and deletes only
\* binaries it found.
BatPreserves ==
  /\ batUserPath' = batUserPath
  /\ batDirs' = batDirs
  /\ batWhere' = batWhere
  /\ batFiles' \subseteq batFiles
  /\ \A f \in batFiles \ batFiles' :
       /\ f \in BatBinaries
       /\ \E i \in 1..Len(FOUND_PATHS) : FOUND_PATHS[i] = f

\* C27: on every path through uninstall.sh and uninstall.bat no shell
\* profile, PATH entry or installation directory is modified or removed;
\* the only state the scripts delete is the svg2icon binaries they found.
C27_PreservesConfiguration == [][ShPreserves /\ BatPreserves]_vars

\* The directory entry of the last image, as the ICO buffer holds it: the
\* count of the header tells where it is.
LastIcoEntry(buf) ==
  LET count == buf[5] + 256 * buf[6]
  IN  Slice(buf, 6 + 16 * (count - 1), 16)

\* C28: the total size in the header of the buffer CreateIcns built is the
\* length of that buffer in bytes, and in the buffer CreateIco built the
\* last payload ends where the buffer ends, its offset plus its length being
\* the length of the buffer, whatever the lengths of the payloads.
C28_SizesMatchBuffer ==
  /\ IcnsBufferBuilt =>
       DecodeBE32(Slice(icnsBuffer, 4, 4)) = Len(icnsBuffer)
  /\ IcoBufferBuilt =>
       LET e == LastIcoEntry(icoBuffer)
       IN  DecodeLE32(Slice(e, 12, 4)) + DecodeLE32(Slice(e, 8, 4)) = Len(icoBuffer)

\* C28 witness: an ICNS buffer of 306 bytes, one payload long and ten of one
\* byte, whose header says 306.
C28_Witness ==
  /\ IcnsBufferBuilt
  /\ Len(icnsEntries[1].Data) = 200
  /\ Len(icnsBuffer) = 306
  /\ Slice(icnsBuffer, 4, 4) = <<0, 0, 1, 50>>

\* x is below 2^32 (which TLC's integers cannot hold).
Below2To32(x) == x \div 65536 < 65536

\* The exact size of the ICO container of the payloads data.
IcoExactSize(data) == 6 + 16 * Len(data) + SumLen(data, Len(data))

\* The exact size of the ICNS container of the payloads data.
IcnsExactSize(data) == 8 + 8 * Len(data) + SumLen(data, Len(data))

RasterFailed(reqs) == \E k \in 1..Len(reqs) : reqs[k].err # NoError

\* C30: a failed rasterization leaves the file system as it was: if a file
\* exists at outputPath when CreateIco or CreateIcns is called and the
\* rasterizer fails for a size, the file is still there after the call,
\* with the content it had before.
C30_ExistingFileKept ==
  /\ icoFileBefore.exists /\ RasterFailed(icoRequests) =>
       /\ icoFile.exists
       /\ icoFile.data = icoFileBefore.data
       /\ icoFile.data = OldFile.data
  /\ icnsFileBefore.exists /\ RasterFailed(icnsRequests) =>
       /\ icnsFile.exists
       /\ icnsFile.data = icnsFileBefore.data
       /\ icnsFile.data = OldFile.data

\* C30 witness: CreateIcns was called where a file exists and has returned
\* the error of its fifth request, four payloads rendered; the old bytes
\* are in the file.
C30_Witness ==
  /\ icnsFileBefore = OldFile
  /\ Len(icnsRequests) = 5
  /\ icnsRequests[5].err \in RasterErrors
  /\ icnsPc = "returned"
  /\ icnsFile.data = <<79, 76, 68>>

====
